---- MODULE Spec2Model ----
(***************************************************************************)
(* A model of erry-az/go-init: the CRUD services for User and Product      *)
(* (internal/usecase and the older internal/handler/grpc services that     *)
(* talk to the database themselves), the events they publish, and the      *)
(* consumer loops (pkg/watermill, pkg/watmil, pkg/rabbitmq) that settle    *)
(* each delivered message.                                                 *)
(*                                                                         *)
(* Groups of actions share one set of variables:                           *)
(*   Spec          two concurrent requests against a service and its store *)
(*   ConsumerSpec  a publisher, a message store and one subscriber loop    *)
(*   FairConsumerSpec / LiveSpec  the same with scheduling fairness        *)
(*   the component specifications at the end: one component each, run on   *)
(*   inputs drawn from small sets (world, args, result)                    *)
(***************************************************************************)
EXTENDS Integers, Sequences, FiniteSets, TLC

VARIABLES
    impl,      \* which generation of the service code serves the requests
    svc,       \* the service the requests go to: "user" or "product"
    rows,      \* the table of that service: a set of rows [id, name, val]
    nextId,    \* the next fresh uuid (uuid.New() never repeats)
    req,       \* per worker: the request it serves and where it stands
    outbox,    \* events the publisher persisted, in order
    loop,      \* consumer side: which subscriber loop runs
    cfg,       \* consumer side: retry configuration, queue arguments, AutoAck
    queue,     \* consumer side: messages waiting in the topic / queue
    dlq,       \* consumer side: messages routed to the dead-letter queue
    cur,       \* consumer side: the delivery the loop is working on
    last,      \* consumer side: the delivery the loop finished last
    published, \* consumer side: how many messages were published so far
    stops,     \* consumer side: how many times the consumer was stopped
    world,     \* component side: what the examined component runs against
    args,      \* component side: the call in progress and its arguments
    result     \* component side: what the calls returned so far

crudVars == <<impl, svc, rows, nextId, req, outbox>>
consVars == <<loop, cfg, queue, dlq, cur, last, published, stops>>
unitVars == <<world, args, result>>
vars == <<impl, svc, rows, nextId, req, outbox,
          loop, cfg, queue, dlq, cur, last, published, stops,
          world, args, result>>

(***************************************************************************)
(* Bounds of the model.                                                    *)
(***************************************************************************)
MaxRows == 1        \* rows a table holds when the requests arrive
MaxMsgs == 2        \* messages published to the consumer's topic
MaxStops == 1       \* times the consumer process is stopped and restarted
MaxHandlings == 2   \* times one event is handed to its handler
MaxCalls == 3       \* calls made on one RabbitMQ client
MaxRpcs == 2        \* RPCs sent to one started server
MaxStore == 2       \* rows of a table that is listed page by page
MaxErrorType == 7   \* largest ErrorType value a DomainError is built with
MaxUpdates == 2     \* price updates in one BulkUpdatePrices request
MaxInflight == 1    \* requests one server runs at a time during shutdown

Workers == {"w1", "w2"}
Impls == {"usecase", "handler"}
Svcs == {"user", "product"}
UserNames == {"ann"}
ProductNames == {"pen", "ink"}
Emails == {"a@x.io", "b@x.io"}
PriceInputs == {"1.50", "2", "abc"}
MalformedIds == {0} \* stands for the id strings uuid.Parse rejects
IdInputs == 0..(MaxRows + 1)

NoRow == [id |-> 0, name |-> "", val |-> ""]

(***************************************************************************)
(* Domain errors and their gRPC codes.                                     *)
(***************************************************************************)
\* A conversion that answers an unlisted error type with codes.Unknown.
ToGRPCErrorUnknown(t) ==
    CASE t = "Validation"   -> "InvalidArgument"
      [] t = "NotFound"     -> "NotFound"
      [] t = "Conflict"     -> "AlreadyExists"
      [] t = "Unauthorized" -> "Unauthenticated"
      [] t = "Forbidden"    -> "PermissionDenied"
      [] t = "Internal"     -> "Internal"
      [] OTHER              -> "Unknown"

\* DomainError.ToGRPCError: the code for the error's type.
ToGRPCError(t) ==
    CASE t = "Validation"   -> "InvalidArgument"
      [] t = "NotFound"     -> "NotFound"
      [] t = "Conflict"     -> "AlreadyExists"
      [] t = "Unauthorized" -> "Unauthenticated"
      [] t = "Forbidden"    -> "PermissionDenied"
      [] t = "Internal"     -> "Internal"
      [] OTHER              -> "Internal"

\* uuid.Parse: the id strings of the model are the uuids 1.. and the
\* malformed ones.
ParseUUIDFails(id) == id \in MalformedIds

\* decimal.NewFromString followed by the NUMERIC(10,2) column: the value the
\* table stores for a price string, "" when the string is no decimal.
DecimalFromString(s) ==
    CASE s = "1.50" -> "1.50"
      [] s = "1.5"  -> "1.50"
      [] s = "2"    -> "2.00"
      [] s = "2.00" -> "2.00"
      [] OTHER      -> ""

\* decimal.Decimal.String() of a stored price: trailing zeros are dropped.
PriceString(v) ==
    CASE v = "1.50" -> "1.5"
      [] v = "2.00" -> "2"
      [] OTHER      -> v

NamesOf(s) == IF s = "user" THEN UserNames ELSE ProductNames
ValInputsOf(s) == IF s = "user" THEN Emails ELSE PriceInputs
StoredValsOf(s) == IF s = "user" THEN Emails ELSE {"1.50", "2.00"}

(***************************************************************************)
(* The table.  users.email is UNIQUE; both tables have a primary key.      *)
(***************************************************************************)
RowOf(id) == IF \E r \in rows : r.id = id
             THEN CHOOSE r \in rows : r.id = id
             ELSE NoRow

Exists(id) == \E r \in rows : r.id = id

\* A table without the UNIQUE constraint.
DuplicateKeyUnchecked(s, id, email) == FALSE

\* The UNIQUE constraint on users.email, as INSERT and UPDATE check it.
DuplicateKey(s, id, email) ==
    s = "user" /\ \E r \in rows : r.val = email /\ r.id # id

ValidTable(s, t) ==
    /\ \A r1, r2 \in t : r1.id = r2.id => r1 = r2
    /\ s = "user" => \A r1, r2 \in t : r1.val = r2.val => r1 = r2
    /\ \E k \in 0..MaxRows : {r.id : r \in t} = 1..k

(***************************************************************************)
(* Requests.  A worker serves one request; pc is the call it makes next.   *)
(***************************************************************************)
Idle == [pc |-> "idle", op |-> "", id |-> 0, name |-> "", val |-> "",
         got |-> NoRow, row |-> NoRow, wrote |-> FALSE, res |-> "",
         err |-> "", todo |-> <<>>, pubs |-> <<>>]

WriteOps == {"Create", "Update", "Delete"}
ReadOps == {"Get", "List"}

\* The struct name the cqrs marshaler derives for an event; the older
\* handlers publish the same event messages on their topic constants.
EventName(s, kind) == (IF s = "user" THEN "User" ELSE "Product") \o kind \o "Event"

\* The event a write operation announces.
Kind(op) == CASE op = "Create" -> "Created" [] op = "Update" -> "Updated"
              [] op = "Delete" -> "Deleted" [] OTHER -> ""

\* The handler's price comparison: numericToString of the row read before
\* the update against numericToString of the numeric scanned from the request.
HandlerPriceChanged(got, val) == got.val # PriceString(DecimalFromString(val))

\* The usecase's price comparison: Price.String() before and after the update.
UsecasePriceChanged(got, row) == PriceString(got.val) # PriceString(row.val)

\* The publish calls the usecases make after a write that returned no
\* error, in order.
UsecaseEvents(s, op, got, row) ==
    CASE op = "Create" -> <<EventName(s, "Created")>>
      [] op = "Update" ->
           <<EventName(s, "Updated")>> \o
           (IF s = "product" /\ UsecasePriceChanged(got, row)
            THEN <<EventName(s, "PriceChanged")>> ELSE <<>>)
      [] op = "Delete" -> <<EventName(s, "Deleted")>>
      [] OTHER -> <<>>

\* The publish calls of the services that talk to the database themselves:
\* CreateProduct calls event.Publish and then PublishProtoMessage.
HandlerEvents(s, op, got, val) ==
    CASE op = "Create" ->
           IF s = "product"
           THEN <<EventName(s, "Created"), EventName(s, "Created")>>
           ELSE <<EventName(s, "Created")>>
      [] op = "Update" ->
           <<EventName(s, "Updated")>> \o
           (IF s = "product" /\ HandlerPriceChanged(got, val)
            THEN <<EventName(s, "PriceChanged")>> ELSE <<>>)
      [] op = "Delete" -> <<EventName(s, "Deleted")>>
      [] OTHER -> <<>>

EventsToPublish(i, s, op, got, row, val) ==
    IF i = "handler" THEN HandlerEvents(s, op, got, val)
                     ELSE UsecaseEvents(s, op, got, row)

\* The entity an event carries: the row the write returned, or for a delete
\* the row read before the delete.
EventEntity(op, got, row) == IF op = "Delete" THEN got ELSE row

\* A service that goes on to publish after an error.
FailThenPublish(r, t) ==
    [r EXCEPT !.pc = "publish", !.todo = <<EventName(svc, Kind(r.op))>>]

\* A request ends with an error: nothing further is called.
Fail(r, t) == [r EXCEPT !.pc = "done", !.res = ToGRPCError(t)]

\* What the service returns once its publish calls are over: the publish
\* errors were printed, the response is the written entity.
Respond(r) == [r EXCEPT !.pc = "done", !.res = "OK"]

\* After a write that returned no error.
Written(r, row) ==
    LET todo == EventsToPublish(impl, svc, r.op, r.got, row, r.val)
    IN [r EXCEPT !.pc = "publish", !.row = row, !.wrote = TRUE, !.todo = todo]

Accept(w) ==
    /\ req[w].pc = "idle"
    /\ w = "w2" => req["w1"].pc # "idle"
    /\ \E op \in WriteOps \cup ReadOps, id \in IdInputs,
          name \in NamesOf(svc), val \in ValInputsOf(svc) :
         /\ op \in {"Create", "List"} => id \in MalformedIds
         /\ op \in {"Get", "Delete", "List"} =>
                /\ name = CHOOSE n \in NamesOf(svc) : TRUE
                /\ val = CHOOSE v \in ValInputsOf(svc) : TRUE
         /\ req' = [req EXCEPT ![w] =
                [Idle EXCEPT !.op = op, !.id = id, !.name = name, !.val = val,
                             !.pc = CASE op = "Create" -> "write"
                                      [] op = "List"   -> "list"
                                      [] OTHER         -> "get"]]
    /\ UNCHANGED <<impl, svc, rows, nextId, outbox>>
    /\ UNCHANGED consVars
    /\ UNCHANGED unitVars

\* The errors GetUserByID / GetProductByID return.  The querier is built on
\* a pgxpool.Pool, so a query that finds no row returns pgx.ErrNoRows: a
\* value of its own in the older pgx v5 releases, a value that wraps
\* sql.ErrNoRows in the newer ones.  The sources do not fix the release.
NoRowsErrors == {"pgx.ErrNoRows", "pgx.ErrNoRows(sql.ErrNoRows)"}
ConnError == "conn"

\* err == sql.ErrNoRows
EqualsSqlErrNoRows(e) == e = "sql.ErrNoRows"

\* errors.Is(err, sql.ErrNoRows)
IsSqlErrNoRows(e) == e \in {"sql.ErrNoRows", "pgx.ErrNoRows(sql.ErrNoRows)"}

\* userUsecase.GetUser compares the error with ==, productUsecase.GetProduct
\* with errors.Is; Update and Delete of the usecases call them.
UsecaseNotFound(s, e) ==
    IF s = "user" THEN EqualsSqlErrNoRows(e) ELSE IsSqlErrNoRows(e)

\* The services that talk to the database themselves: GetUser, UpdateUser,
\* DeleteUser and DeleteProduct compare with ==, GetProduct and UpdateProduct
\* with errors.Is.
HandlerNotFound(s, op, e) ==
    IF s = "product" /\ op \in {"Get", "Update"}
    THEN IsSqlErrNoRows(e) ELSE EqualsSqlErrNoRows(e)

\* The error type a lookup answers a failed query with.
LookupErrorType(i, s, op, e) ==
    IF (IF i = "handler" THEN HandlerNotFound(s, op, e) ELSE UsecaseNotFound(s, e))
    THEN "NotFound" ELSE "Internal"

\* uuid.Parse and GetUserByID / GetProductByID (Get, and the first call of
\* Update and Delete).
GetByID(w) ==
    /\ req[w].pc = "get"
    /\ \E dbErr \in BOOLEAN, noRows \in NoRowsErrors :
         LET e == IF dbErr THEN ConnError
                  ELSE IF ~Exists(req[w].id) THEN noRows ELSE ""
         IN req' = [req EXCEPT ![w] =
            IF ParseUUIDFails(req[w].id) THEN Fail(req[w], "Validation")
            ELSE IF e # ""
                 THEN [Fail(req[w], LookupErrorType(impl, svc, req[w].op, e))
                          EXCEPT !.err = e]
            ELSE IF req[w].op = "Get"
                 THEN [req[w] EXCEPT !.pc = "done", !.res = "OK", !.got = RowOf(req[w].id)]
                 ELSE [req[w] EXCEPT !.pc = "write", !.got = RowOf(req[w].id)]]
    /\ UNCHANGED <<impl, svc, rows, nextId, outbox>>
    /\ UNCHANGED consVars
    /\ UNCHANGED unitVars

\* ListUsers / ListProducts read the table and publish nothing.
List(w) ==
    /\ req[w].pc = "list"
    /\ \E dbErr \in BOOLEAN :
         req' = [req EXCEPT ![w] =
            IF dbErr THEN Fail(req[w], "Internal")
            ELSE [req[w] EXCEPT !.pc = "done", !.res = "OK"]]
    /\ UNCHANGED <<impl, svc, rows, nextId, outbox>>
    /\ UNCHANGED consVars
    /\ UNCHANGED unitVars

\* What the column stores for a request value: the email as given, the
\* price as a NUMERIC(10,2).
StoredVal(s, val) == IF s = "user" THEN val ELSE DecimalFromString(val)

\* NewProductFromString / UpdateDetailsFromString reject a price that is no
\* decimal; users are not validated.
InvalidInput(s, val) == s = "product" /\ DecimalFromString(val) = ""

\* CreateUser / CreateProduct: one INSERT ... RETURNING *.
InsertRow(w) ==
    /\ req[w].pc = "write" /\ req[w].op = "Create"
    /\ \E dbErr \in BOOLEAN :
         LET r == req[w]
             row == [id |-> nextId, name |-> r.name, val |-> StoredVal(svc, r.val)]
         IN IF InvalidInput(svc, r.val)
            THEN /\ req' = [req EXCEPT ![w] = Fail(r, "Validation")]
                 /\ UNCHANGED <<rows, nextId>>
            ELSE IF dbErr
            THEN /\ req' = [req EXCEPT ![w] = Fail(r, "Internal")]
                 /\ UNCHANGED <<rows, nextId>>
            ELSE IF DuplicateKey(svc, nextId, r.val)
            THEN /\ req' = [req EXCEPT ![w] = Fail(r, IF svc = "user" THEN "Conflict" ELSE "Internal")]
                 /\ UNCHANGED <<rows, nextId>>
            ELSE /\ rows' = rows \cup {row}
                 /\ nextId' = nextId + 1
                 /\ req' = [req EXCEPT ![w] = Written(r, row)]
    /\ UNCHANGED <<impl, svc, outbox>>
    /\ UNCHANGED consVars
    /\ UNCHANGED unitVars

\* An UPDATE that inserts the row when the id is gone.
UpdateMatchesUpsert(id) == TRUE

\* UPDATE ... WHERE id = @id: the statement changes a row when the table
\* holds the id.
UpdateMatches(id) == Exists(id)

\* UpdateUser / UpdateProduct: one UPDATE ... WHERE id = @id RETURNING *, a
\* :one query, which returns the no-rows error when the id is gone.
UpdateRow(w) ==
    /\ req[w].pc = "write" /\ req[w].op = "Update"
    /\ \E dbErr \in BOOLEAN, noRows \in NoRowsErrors :
         LET r == req[w]
             row == [id |-> r.id, name |-> r.name, val |-> StoredVal(svc, r.val)]
         IN IF InvalidInput(svc, r.val)
            THEN /\ req' = [req EXCEPT ![w] = Fail(r, "Validation")]
                 /\ UNCHANGED rows
            ELSE IF dbErr \/ ~UpdateMatches(r.id)
            THEN /\ req' = [req EXCEPT ![w] =
                        [Fail(r, "Internal")
                            EXCEPT !.err = IF dbErr THEN ConnError ELSE noRows]]
                 /\ UNCHANGED rows
            ELSE IF DuplicateKey(svc, r.id, r.val)
            THEN /\ req' = [req EXCEPT ![w] = Fail(r, IF svc = "user" THEN "Conflict" ELSE "Internal")]
                 /\ UNCHANGED rows
            ELSE /\ rows' = {x \in rows : x.id # r.id} \cup {row}
                 /\ req' = [req EXCEPT ![w] = Written(r, row)]
    /\ UNCHANGED <<impl, svc, nextId, outbox>>
    /\ UNCHANGED consVars
    /\ UNCHANGED unitVars

\* DeleteUser / DeleteProduct: DELETE ... WHERE id = $1, no error when the
\* row is already gone.
DeleteRow(w) ==
    /\ req[w].pc = "write" /\ req[w].op = "Delete"
    /\ \E dbErr \in BOOLEAN :
         LET r == req[w]
         IN IF dbErr
            THEN /\ req' = [req EXCEPT ![w] = Fail(r, "Internal")]
                 /\ UNCHANGED rows
            ELSE /\ rows' = {x \in rows : x.id # r.id}
                 /\ req' = [req EXCEPT ![w] = Written(r, NoRow)]
    /\ UNCHANGED <<impl, svc, nextId, outbox>>
    /\ UNCHANGED consVars
    /\ UNCHANGED unitVars

\* A service that returns the publish error to its caller.
PublishReturnedFatal(r, ok) ==
    LET r1 == [r EXCEPT !.pubs = Append(@, [type |-> Head(r.todo),
                                             ent |-> EventEntity(r.op, r.got, r.row),
                                             ok |-> ok]),
                        !.todo = Tail(@)]
    IN IF ~ok THEN Fail(r1, "Internal")
       ELSE IF r1.todo = <<>> THEN Respond(r1) ELSE r1

\* One publish call returned: its error, if any, was printed and dropped.
PublishReturned(r, ok) ==
    LET r1 == [r EXCEPT !.pubs = Append(@, [type |-> Head(r.todo),
                                             ent |-> EventEntity(r.op, r.got, r.row),
                                             ok |-> ok]),
                        !.todo = Tail(@)]
    IN IF r1.todo = <<>> THEN Respond(r1) ELSE r1

\* The next publish call of a request: the publisher inserts the message
\* into its own table with its own connection, or returns an error.
PublishEvent(w) ==
    /\ req[w].pc = "publish"
    /\ \E ok \in BOOLEAN :
         /\ req' = [req EXCEPT ![w] = PublishReturned(req[w], ok)]
         /\ outbox' = IF ok
                      THEN Append(outbox, [type |-> Head(req[w].todo),
                                           ent |-> EventEntity(req[w].op, req[w].got, req[w].row),
                                           by |-> w])
                      ELSE outbox
    /\ UNCHANGED <<impl, svc, rows, nextId>>
    /\ UNCHANGED consVars
    /\ UNCHANGED unitVars

RowCandidates(s) == [id : 1..MaxRows, name : NamesOf(s), val : StoredValsOf(s)]

UnitIdle == world = "" /\ args = "" /\ result = ""

ConsIdle ==
    /\ loop = "" /\ cfg = [retry |-> 0] /\ queue = <<>> /\ dlq = <<>>
    /\ cur = [stage |-> "none"] /\ last = [stage |-> "none"]
    /\ published = 0 /\ stops = 0

Init ==
    /\ impl \in Impls
    /\ svc \in Svcs
    /\ rows \in {t \in SUBSET RowCandidates(svc) : ValidTable(svc, t)}
    /\ nextId = Cardinality(rows) + 1
    /\ req = [w \in Workers |-> Idle]
    /\ outbox = <<>>
    /\ ConsIdle
    /\ UnitIdle

Next ==
    \E w \in Workers :
        \/ Accept(w)
        \/ GetByID(w)
        \/ List(w)
        \/ InsertRow(w)
        \/ UpdateRow(w)
        \/ DeleteRow(w)
        \/ PublishEvent(w)

Spec == Init /\ [][Next]_vars

(***************************************************************************)
(* Properties of the request side (Spec).                                  *)
(***************************************************************************)
Done(w) == req[w].pc = "done"
Attempts(w, type) == {i \in 1..Len(req[w].pubs) : req[w].pubs[i].type = type}
Persisted(w) == {i \in 1..Len(outbox) : outbox[i].by = w}

\* C2: the domain write and its event are committed atomically: once a
\* request has finished, its write is committed if and only if an event
\* message of the request is persisted.
C2_WriteAndEventAtomic ==
    \A w \in Workers : Done(w) => (req[w].wrote <=> Persisted(w) # {})

\* C4: a publish call that fails does not fail the request: the step leaves
\* the table as the write left it, the request goes on, and when it ends it
\* returns success.
C4_PublishFailureNotFatal ==
    [][\A w \in Workers :
          (/\ Len(req'[w].pubs) = Len(req[w].pubs) + 1
           /\ ~req'[w].pubs[Len(req'[w].pubs)].ok)
          => /\ rows' = rows
             /\ req'[w].wrote /\ req'[w].row = req[w].row
             /\ req'[w].pc \in {"publish", "done"}
             /\ req'[w].pc = "done" => req'[w].res = "OK"]_vars

C4_Witness ==
    \E w \in Workers :
        /\ Done(w) /\ req[w].op = "Create" /\ req[w].res = "OK"
        /\ \A i \in 1..Len(req[w].pubs) : ~req[w].pubs[i].ok
        /\ req[w].pubs # <<>>
        /\ req[w].row \in rows

\* C5: events follow successful writes only: every publish attempt and every
\* persisted message belongs to a Create, Update or Delete whose database
\* write returned no error; a request that returned an error, a Get and a
\* List made no publish attempt.
C5_PublishOnlyAfterWrite ==
    /\ \A w \in Workers :
          /\ req[w].pubs # <<>> => req[w].wrote /\ req[w].op \in WriteOps
          /\ req[w].pc = "publish" => req[w].wrote /\ req[w].op \in WriteOps
          /\ (Done(w) /\ req[w].res # "OK") => req[w].pubs = <<>> /\ ~req[w].wrote
          /\ req[w].op \in ReadOps => req[w].pubs = <<>>
    /\ \A i \in 1..Len(outbox) :
          req[outbox[i].by].wrote /\ req[outbox[i].by].op \in WriteOps

C5_Witness ==
    \E w, v \in Workers :
        /\ Done(w) /\ req[w].op = "Update" /\ req[w].got # NoRow
        /\ req[w].res = "Internal" /\ req[w].pubs = <<>>
        /\ Done(v) /\ req[v].op = "Get" /\ req[v].res = "OK" /\ req[v].pubs = <<>>

\* C6: a successful Create, Update or Delete makes exactly one publish call
\* of its own event type, and the event carries the entity as stored (for a
\* delete, the entity read before the delete).
C6_ExactlyOnePublish ==
    \A w \in Workers :
        (Done(w) /\ req[w].res = "OK" /\ req[w].op \in WriteOps) =>
            /\ Cardinality(Attempts(w, EventName(svc, Kind(req[w].op)))) = 1
            /\ \A i \in Attempts(w, EventName(svc, Kind(req[w].op))) :
                  req[w].pubs[i].ent = EventEntity(req[w].op, req[w].got, req[w].row)

UniqueEmails == svc = "user" => \A r1, r2 \in rows : r1.val = r2.val => r1 = r2

PriceChangedData(i, got, row, val) ==
    IF i = "handler"
    THEN [PreviousPrice |-> got.val,
          NewPrice |-> PriceString(DecimalFromString(val))]
    ELSE [PreviousPrice |-> PriceString(got.val),
          NewPrice |-> PriceString(row.val)]

Position(seq, x) ==
    IF \E i \in 1..Len(seq) : seq[i] = x
    THEN CHOOSE i \in 1..Len(seq) : seq[i] = x
    ELSE 0

\* C14: a successful UpdateProduct publishes ProductUpdated, and publishes
\* ProductPriceChanged if and only if the price stored before the update
\* differs in value from the price stored after it; the ProductPriceChanged
\* event carries the old price as PreviousPrice and the new price as NewPrice
\* and comes after the ProductUpdated event.
C14_PriceChangedIffDiffers ==
    [][\A w \in Workers :
          (/\ svc = "product" /\ req[w].op = "Update"
           /\ req[w].pc = "write" /\ req'[w].pc = "publish")
          => LET before == RowOf(req[w].id).val
                 after == req'[w].row.val
                 todo == req'[w].todo
                 data == PriceChangedData(impl, req[w].got, req'[w].row, req[w].val)
             IN /\ Position(todo, "ProductUpdatedEvent") = 1
                /\ (Position(todo, "ProductPriceChangedEvent") # 0) <=> (before # after)
                /\ (Position(todo, "ProductPriceChangedEvent") # 0) =>
                     (/\ Position(todo, "ProductPriceChangedEvent") = 2
                      /\ DecimalFromString(data.PreviousPrice) = before
                      /\ DecimalFromString(data.NewPrice) = after)]_vars

\* C23: every ProductPriceChanged event an UpdateProduct announces carries as
\* PreviousPrice the price the table held immediately before the UPDATE of
\* that call, and as NewPrice the price the UPDATE wrote, also when another
\* UpdateProduct on the same product runs at the same time.
C23_PreviousPriceIsStoredPrice ==
    [][\A w \in Workers :
          (/\ svc = "product" /\ req[w].op = "Update"
           /\ req[w].pc = "write" /\ req'[w].pc = "publish"
           /\ Position(req'[w].todo, "ProductPriceChangedEvent") # 0)
          => LET data == PriceChangedData(impl, req[w].got, req'[w].row, req[w].val)
             IN /\ DecimalFromString(data.PreviousPrice) = RowOf(req[w].id).val
                /\ DecimalFromString(data.NewPrice) = RowOf(req[w].id)'.val]_vars

\* The persisted Deleted events of one entity, and the Delete calls on it
\* that returned success.  Ids are never given to a second row.
DeletedEvents(id) ==
    {i \in 1..Len(outbox) : /\ outbox[i].type = EventName(svc, "Deleted")
                            /\ outbox[i].ent.id = id}
SuccessfulDeletes(id) ==
    {w \in Workers : /\ Done(w) /\ req[w].op = "Delete"
                     /\ req[w].id = id /\ req[w].res = "OK"}

\* C24: for each user or product at most one Deleted event is published and
\* at most one Delete call returns success, also when two Delete calls for
\* the same id run at the same time.
C24_AtMostOneDelete ==
    \A id \in 1..(MaxRows + 1) :
        /\ Cardinality(DeletedEvents(id)) <= 1
        /\ Cardinality(SuccessfulDeletes(id)) <= 1

\* C25: an update never resurrects or reports a deleted entity: when the row
\* was deleted between the lookup and the UPDATE of an UpdateUser or
\* UpdateProduct, the call ends with an error, makes no publish call, and the
\* table still does not hold the id; a call that ended so has no event in
\* the outbox.
C25_UpdateNeverResurrects ==
    /\ [][\A w \in Workers :
             (/\ req[w].op = "Update" /\ req[w].pc = "write"
              /\ req'[w].pc # "write" /\ ~Exists(req[w].id))
             => /\ Done(w)' /\ req'[w].res \notin {"", "OK"}
                /\ ~req'[w].wrote /\ req'[w].todo = <<>> /\ req'[w].pubs = <<>>
                /\ ~Exists(req[w].id)' /\ rows' = rows /\ outbox' = outbox]_vars
    /\ [](\A w \in Workers :
             (Done(w) /\ req[w].op = "Update" /\ req[w].err \in NoRowsErrors)
             => /\ Persisted(w) = {} /\ req[w].pubs = <<>>
                /\ req[w].res \in {"NotFound", "Internal"})

C25_Witness ==
    \E w, v \in Workers :
        /\ Done(w) /\ req[w].op = "Update" /\ req[w].got # NoRow
        /\ req[w].err \in NoRowsErrors /\ req[w].res = "Internal"
        /\ req[v].op = "Delete" /\ req[v].id = req[w].id /\ req[v].wrote
        /\ ~Exists(req[w].id)

\* C22: Get, Update and Delete with a malformed ID return InvalidArgument
\* without a query; with a well-formed ID that the table does not hold, and
\* a query that ran, they return NotFound; in both cases the request ends,
\* the table is unchanged and no event is published.
C22_LookupOutcomes ==
    [][\A w \in Workers :
          (/\ req[w].pc = "get" /\ req'[w].pc # "get"
           /\ req[w].op \in {"Get", "Update", "Delete"})
          => /\ ParseUUIDFails(req[w].id) =>
                   (/\ req'[w].res = "InvalidArgument" /\ req'[w].err = ""
                    /\ Done(w)' /\ req'[w].pubs = <<>>
                    /\ rows' = rows /\ outbox' = outbox)
             /\ (/\ ~ParseUUIDFails(req[w].id) /\ ~Exists(req[w].id)
                 /\ req'[w].err # ConnError) =>
                   (/\ req'[w].res = "NotFound"
                    /\ Done(w)' /\ req'[w].pubs = <<>>
                    /\ rows' = rows /\ outbox' = outbox)]_vars

(***************************************************************************)
(* The consumer side: a topic store, publishers, and one subscriber loop.  *)
(***************************************************************************)
Loops == {"Subscribe", "SubscribeProto", "EventRouter", "EventProcessor",
          "registerHandler", "ClientSubscribe"}
SqlLoops == {"Subscribe", "SubscribeProto", "EventProcessor"}
RabbitLoops == {"registerHandler", "ClientSubscribe"}
RetryLoops == {"EventRouter", "EventProcessor"}
EventTypes == {"UserCreatedEvent", "UserUpdatedEvent"}

\* The retry presets of the consumer configuration.
DefaultMaxRetries == 3
AggressiveMaxRetries == 5
ConservativeMaxRetries == 2
EventRouterMaxRetries == 3

\* A RetryConsumerConfig; isNil stands for the nil pointer.  Durations are
\* in milliseconds, Multiplier and RandomizationFactor in hundredths.
NilRetry == [isNil |-> TRUE, Type |-> "", MaxRetries |-> 0, InitialInterval |-> 0,
             MaxInterval |-> 0, Multiplier |-> 0, MaxElapsedTime |-> 0,
             RandomizationFactor |-> 0]
RetryConfigs ==
    {NilRetry} \cup
    [isNil : {FALSE}, Type : {"conservative", "aggressive"}, MaxRetries : {0, 1},
     InitialInterval : {0}, MaxInterval : {0}, Multiplier : {0},
     MaxElapsedTime : {0}, RandomizationFactor : {0}]

DefaultRetryConsumerConfig ==
    [MaxRetries |-> DefaultMaxRetries, InitialInterval |-> 100,
     MaxInterval |-> 30 * 1000, Multiplier |-> 200,
     MaxElapsedTime |-> 5 * 60 * 1000, RandomizationFactor |-> 10]
AggressiveRetryConsumerConfig ==
    [MaxRetries |-> AggressiveMaxRetries, InitialInterval |-> 50,
     MaxInterval |-> 10 * 1000, Multiplier |-> 150,
     MaxElapsedTime |-> 2 * 60 * 1000, RandomizationFactor |-> 20]
ConservativeRetryConsumerConfig ==
    [MaxRetries |-> ConservativeMaxRetries, InitialInterval |-> 500,
     MaxInterval |-> 60 * 1000, Multiplier |-> 300,
     MaxElapsedTime |-> 10 * 60 * 1000, RandomizationFactor |-> 5]

\* The preset the switch over c.Type selects.
RetryPreset(c) ==
    CASE c.Type = "default"      -> DefaultRetryConsumerConfig
      [] c.Type = "conservative" -> ConservativeRetryConsumerConfig
      [] c.Type = "aggressive"   -> AggressiveRetryConsumerConfig
      [] OTHER                   -> DefaultRetryConsumerConfig

\* A resolution that takes every configured value that is not negative.
GetRetryFromZero(c) ==
    IF c.isNil THEN DefaultRetryConsumerConfig
    ELSE LET ret == RetryPreset(c)
         IN [MaxRetries |-> IF c.MaxRetries >= 0 THEN c.MaxRetries ELSE ret.MaxRetries,
             InitialInterval |-> IF c.InitialInterval >= 0 THEN c.InitialInterval
                                 ELSE ret.InitialInterval,
             MaxInterval |-> IF c.MaxInterval >= 0 THEN c.MaxInterval ELSE ret.MaxInterval,
             Multiplier |-> IF c.Multiplier >= 0 THEN c.Multiplier ELSE ret.Multiplier,
             MaxElapsedTime |-> IF c.MaxElapsedTime >= 0 THEN c.MaxElapsedTime
                                ELSE ret.MaxElapsedTime,
             RandomizationFactor |-> IF c.RandomizationFactor >= 0 THEN c.RandomizationFactor
                                     ELSE ret.RandomizationFactor]

\* RetryConsumerConfig.GetRetry: the preset of the type, then the fields of
\* the configuration that are greater than zero.
GetRetry(c) ==
    IF c.isNil THEN DefaultRetryConsumerConfig
    ELSE LET ret == RetryPreset(c)
         IN [MaxRetries |-> IF c.MaxRetries > 0 THEN c.MaxRetries ELSE ret.MaxRetries,
             InitialInterval |-> IF c.InitialInterval > 0 THEN c.InitialInterval
                                 ELSE ret.InitialInterval,
             MaxInterval |-> IF c.MaxInterval > 0 THEN c.MaxInterval ELSE ret.MaxInterval,
             Multiplier |-> IF c.Multiplier > 0 THEN c.Multiplier ELSE ret.Multiplier,
             MaxElapsedTime |-> IF c.MaxElapsedTime > 0 THEN c.MaxElapsedTime
                                ELSE ret.MaxElapsedTime,
             RandomizationFactor |-> IF c.RandomizationFactor > 0 THEN c.RandomizationFactor
                                     ELSE ret.RandomizationFactor]

\* A middleware that retries once more than configured.
MiddlewareRetryOneMore(l, c) ==
    IF l = "EventRouter" THEN EventRouterMaxRetries + 1 ELSE GetRetry(c).MaxRetries + 1

\* The MaxRetries of the Retry middleware a router runs its handlers under.
MiddlewareRetry(l, c) ==
    IF l = "EventRouter" THEN EventRouterMaxRetries ELSE GetRetry(c).MaxRetries

\* Topic names.  The cqrs event bus and processor derive them from the
\* event name; the other pipelines use the topic constant (routing key)
\* written at the publish and at the subscribe call.
generateEventTopic(eventName) == "events." \o eventName
GeneratePublishTopic(eventName) == generateEventTopic(eventName)
SubscribeTopicShared(eventName) == "events"
GenerateSubscribeTopic(eventName) == generateEventTopic(eventName)
TopicConst(t) == IF t = "UserCreatedEvent" THEN "user.created" ELSE "user.updated"

PublishTopic(l, t) == IF l = "EventProcessor" THEN GeneratePublishTopic(t) ELSE TopicConst(t)
SubscribeTopic(l, t) == IF l = "EventProcessor" THEN GenerateSubscribeTopic(t) ELSE TopicConst(t)
Topics(l) == {SubscribeTopic(l, t) : t \in EventTypes}

NoMsg == [id |-> 0, type |-> "", topic |-> "", valid |-> FALSE]
NoDelivery == [msg |-> NoMsg, h |-> "", stage |-> "none", tries |-> 0, calls |-> 0,
               err |-> "", expired |-> FALSE, settled |-> <<>>]

\* A message as the typed publish call of its pipeline writes it.
WellFormed(m) == m.valid /\ m.topic = PublishTopic(loop, m.type)

AutoAck == loop = "ClientSubscribe" /\ cfg.autoAck

Without(q, m) == SelectSeq(q, LAMBDA x : x # m)
OnTopic(q, topic) == SelectSeq(q, LAMBDA x : x.topic = topic)

ConfigsOf(l) ==
    CASE l = "EventProcessor"  -> [retry : RetryConfigs, autoAck : {FALSE}, dlx : {FALSE}]
      [] l = "ClientSubscribe" -> [retry : {NilRetry}, autoAck : BOOLEAN, dlx : BOOLEAN]
      [] l = "registerHandler" -> [retry : {NilRetry}, autoAck : {FALSE}, dlx : BOOLEAN]
      [] OTHER                 -> [retry : {NilRetry}, autoAck : {FALSE}, dlx : {FALSE}]

CrudIdle ==
    /\ impl = "" /\ svc = "" /\ rows = {} /\ nextId = 1
    /\ req = [w \in Workers |-> Idle] /\ outbox = <<>>

ConsumerInit ==
    /\ CrudIdle
    /\ UnitIdle
    /\ loop \in Loops
    /\ cfg \in ConfigsOf(loop)
    /\ queue = <<>> /\ dlq = <<>>
    /\ cur = NoDelivery /\ last = NoDelivery
    /\ published = 0 /\ stops = 0

\* EventBus.Publish, PublishProtoMessage, rabbitmq.Publish: the marshalled
\* event goes to the topic of its type.
PublishTyped ==
    /\ published < MaxMsgs
    /\ \E t \in EventTypes :
         queue' = Append(queue, [id |-> published + 1, type |-> t,
                                 topic |-> PublishTopic(loop, t), valid |-> TRUE])
    /\ published' = published + 1
    /\ UNCHANGED <<loop, cfg, dlq, cur, last, stops>>
    /\ UNCHANGED crudVars
    /\ UNCHANGED unitVars

\* Publisher.Publish(topic, data, metadata), or any other client of the
\* broker: bytes that need not unmarshal, on a topic of the caller's choice.
PublishRaw ==
    /\ published < MaxMsgs
    /\ \E t \in EventTypes, topic \in Topics(loop), valid \in BOOLEAN :
         /\ ~(valid /\ topic = PublishTopic(loop, t))
         /\ queue' = Append(queue, [id |-> published + 1, type |-> t,
                                    topic |-> topic, valid |-> valid])
    /\ published' = published + 1
    /\ UNCHANGED <<loop, cfg, dlq, cur, last, stops>>
    /\ UNCHANGED crudVars
    /\ UNCHANGED unitVars

\* A subscription that forgets every message it delivers.
ReceiveForgetting(h) ==
    /\ cur.stage = "none"
    /\ OnTopic(queue, SubscribeTopic(loop, h)) # <<>>
    /\ LET m == Head(OnTopic(queue, SubscribeTopic(loop, h)))
       IN /\ cur' = [NoDelivery EXCEPT !.msg = m, !.h = h, !.stage = "handle"]
          /\ queue' = Without(queue, m)
    /\ UNCHANGED <<loop, cfg, dlq, last, published, stops>>
    /\ UNCHANGED crudVars
    /\ UNCHANGED unitVars

\* The subscription of handler h yields the next message of its topic.
\* With AutoAck the broker forgets the message as it delivers it.
Receive(h) ==
    /\ cur.stage = "none"
    /\ OnTopic(queue, SubscribeTopic(loop, h)) # <<>>
    /\ LET m == Head(OnTopic(queue, SubscribeTopic(loop, h)))
       IN /\ cur' = [NoDelivery EXCEPT !.msg = m, !.h = h, !.stage = "handle"]
          /\ queue' = IF AutoAck THEN Without(queue, m) ELSE queue
    /\ UNCHANGED <<loop, cfg, dlq, last, published, stops>>
    /\ UNCHANGED crudVars
    /\ UNCHANGED unitVars

\* What stands between the delivery and the user's handler: "" when the
\* handler is called.  Subscribe hands the raw message over; the other loops
\* unmarshal first; the cqrs processor also compares the event name.
Decode(l, h, m) ==
    CASE l = "Subscribe" -> ""
      [] l = "EventProcessor" ->
           IF m.type # h THEN "type" ELSE IF ~m.valid THEN "decode" ELSE ""
      [] OTHER -> IF ~m.valid THEN "decode" ELSE ""

\* The Retry middleware leaves its loop once retryNum exceeds MaxRetries;
\* retryNum counts from the first failed call, and the loop body runs at
\* least once.
RetriesExhausted(tries, max) == tries > 1 /\ tries > max

\* The user's handler is called and returns nil.
HandlerOk ==
    /\ cur.stage \in {"handle", "backoff"}
    /\ Decode(loop, cur.h, cur.msg) = ""
    /\ cur' = [cur EXCEPT !.tries = @ + 1, !.calls = @ + 1, !.err = "nil",
                          !.stage = "settle"]
    /\ UNCHANGED <<loop, cfg, queue, dlq, last, published, stops>>
    /\ UNCHANGED crudVars
    /\ UNCHANGED unitVars

\* Unmarshalling fails, or the user's handler is called and returns an
\* error.  Under the Retry middleware the call is repeated after a backoff.
HandlerFail ==
    /\ cur.stage \in {"handle", "backoff"}
    /\ LET d == Decode(loop, cur.h, cur.msg)
           tries == cur.tries + 1
           again == loop \in RetryLoops
                    /\ ~RetriesExhausted(tries, MiddlewareRetry(loop, cfg.retry))
       IN cur' = [cur EXCEPT !.tries = tries,
                             !.calls = IF d = "" THEN @ + 1 ELSE @,
                             !.err = IF d = "" THEN "error" ELSE d,
                             !.stage = IF again THEN "backoff" ELSE "settle"]
    /\ UNCHANGED <<loop, cfg, queue, dlq, last, published, stops>>
    /\ UNCHANGED crudVars
    /\ UNCHANGED unitVars

\* The context of the retry is done (MaxElapsedTime passed, or the router
\* is closing) while the middleware waits: it returns the last error.
GiveUp ==
    /\ cur.stage = "backoff"
    /\ cur' = [cur EXCEPT !.expired = TRUE, !.stage = "settle"]
    /\ UNCHANGED <<loop, cfg, queue, dlq, last, published, stops>>
    /\ UNCHANGED crudVars
    /\ UNCHANGED unitVars

\* A loop whose error branch falls through to the Ack.
SettleCallsFallThrough(l, autoAck, err) ==
    IF autoAck THEN <<>>
    ELSE IF err = "nil" THEN <<"Ack">>
    ELSE IF l \in RabbitLoops THEN <<"Nack(requeue)", "Ack">>
    ELSE <<"Nack", "Ack">>

\* The settle calls a loop makes once the handler path returned.
SettleCalls(l, autoAck, err) ==
    IF autoAck THEN <<>>
    ELSE IF err = "nil" THEN <<"Ack">>
    ELSE IF l \in RabbitLoops THEN <<"Nack(requeue)">>
    ELSE <<"Nack">>

\* The store after a settle call: Ack removes the message; a Nack of a
\* watermill message leaves it to be sent again; RabbitMQ puts a requeued
\* message back behind those already delivered, and dead-letters or drops
\* one rejected without requeue.
AfterSettle(q, m, call) ==
    CASE call = "Ack"           -> Without(q, m)
      [] call = "Nack"          -> q
      [] call = "Nack(requeue)" -> IF m \in {q[i] : i \in 1..Len(q)}
                                   THEN Append(Without(q, m), m) ELSE q
      [] OTHER                  -> Without(q, m)

DeadLetters(d, m, call) ==
    IF call = "Nack(drop)" /\ cfg.dlx THEN Append(d, m) ELSE d

Settle ==
    /\ cur.stage = "settle"
    /\ LET calls == SettleCalls(loop, AutoAck, cur.err)
       IN /\ queue' = IF calls = <<>> THEN queue ELSE AfterSettle(queue, cur.msg, calls[1])
          /\ dlq' = IF calls = <<>> THEN dlq ELSE DeadLetters(dlq, cur.msg, calls[1])
          /\ last' = [cur EXCEPT !.stage = "done", !.settled = calls]
    /\ cur' = NoDelivery
    /\ UNCHANGED <<loop, cfg, published, stops>>
    /\ UNCHANGED crudVars
    /\ UNCHANGED unitVars

\* The consumer process stops in the middle of a delivery and is started
\* again: the delivery is forgotten, unsettled.
Stop ==
    /\ cur.stage # "none"
    /\ stops < MaxStops
    /\ cur' = NoDelivery
    /\ stops' = stops + 1
    /\ UNCHANGED <<loop, cfg, queue, dlq, last, published>>
    /\ UNCHANGED crudVars
    /\ UNCHANGED unitVars

Deliver == \E h \in EventTypes : Receive(h)
Invoke == HandlerOk \/ HandlerFail

ConsumerNext ==
    \/ PublishTyped
    \/ PublishRaw
    \/ Deliver
    \/ HandlerOk
    \/ HandlerFail
    \/ GiveUp
    \/ Settle
    \/ Stop

ConsumerSpec == ConsumerInit /\ [][ConsumerNext]_vars

\* The consumer keeps running: a step of its loop that stays possible is taken.
FairConsumerSpec ==
    /\ ConsumerInit /\ [][ConsumerNext]_vars
    /\ WF_vars(Deliver) /\ WF_vars(Invoke) /\ WF_vars(Settle)

LiveNext ==
    \/ PublishTyped
    \/ Deliver
    \/ HandlerOk
    \/ HandlerFail
    \/ GiveUp
    \/ Settle
    \/ Stop

\* Typed publishers only, a consumer that keeps running, and a handler that
\* does not fail forever.
LiveSpec ==
    /\ ConsumerInit /\ [][LiveNext]_vars
    /\ WF_vars(Deliver) /\ WF_vars(Invoke) /\ WF_vars(Settle)
    /\ SF_vars(HandlerOk)

(***************************************************************************)
(* Properties of the consumer side.                                        *)
(***************************************************************************)
InStore(q, i) == \E k \in 1..Len(q) : q[k].id = i
Holds(q, m) == \E k \in 1..Len(q) : q[k] = m
Finished == last.stage = "done"
AckedAfterNil(d) == d.err = "nil" /\ d.calls >= 1 /\ d.settled = <<"Ack">>

\* C1: at-least-once delivery (LiveSpec, manual acknowledgment): every
\* message persisted on its topic leads to a delivery to the handler of its
\* type that returns nil and is acknowledged; and a delivery that ends any
\* other way (handler error, unmarshal error, consumer stop) leaves the
\* message in the store.
C1_AtLeastOnce ==
    /\ \A i \in 1..MaxMsgs :
          (~AutoAck /\ InStore(queue, i))
              ~> (Finished /\ last.msg.id = i /\ last.h = last.msg.type
                  /\ AckedAfterNil(last))
    /\ [][(/\ ~AutoAck /\ cur.stage # "none" /\ cur'.stage = "none"
           /\ ~(cur.stage = "settle" /\ cur.err = "nil"))
          => Holds(queue', cur.msg)]_vars

C1_Witness ==
    /\ loop = "SubscribeProto"
    /\ Finished /\ last.err = "error" /\ last.settled = <<"Nack">>
    /\ stops > 0
    /\ cur.msg = last.msg /\ cur.stage = "settle" /\ cur.err = "nil"

\* C3: with manual acknowledgment every loop settles a delivery it finished
\* exactly once: Ack exactly when the handler was called and returned nil,
\* otherwise Nack (with requeue in the RabbitMQ loops); and a message leaves
\* the store only by the Ack that follows a handler run returning nil.
C3_SettleExactlyOnce ==
    /\ []((Finished /\ ~AutoAck) =>
            /\ Len(last.settled) = 1
            /\ last.settled[1] = "Ack" <=> last.err = "nil"
            /\ last.settled[1] = "Ack" => last.calls >= 1
            /\ last.err # "nil" =>
                 last.settled[1] = IF loop \in RabbitLoops THEN "Nack(requeue)" ELSE "Nack")
    /\ [][~AutoAck =>
            \A k \in 1..Len(queue) :
                ~Holds(queue', queue[k]) =>
                    /\ cur.msg = queue[k] /\ cur.err = "nil" /\ cur.calls >= 1
                    /\ last'.settled = <<"Ack">>]_vars

C3_Witness ==
    /\ loop = "ClientSubscribe" /\ ~cfg.autoAck
    /\ Finished /\ last.err = "decode" /\ last.calls = 0
    /\ last.settled = <<"Nack(requeue)">>
    /\ Holds(queue, last.msg)

\* C8: dispatch by type: for every event name the publisher's topic and
\* the subscriber's topic are both "events." + name, and distinct names
\* have distinct topics; so a message a typed publisher wrote is delivered
\* only to the handler of its own type, and the cqrs processor never calls
\* a handler with a message of another type.
C8_DispatchByType ==
    /\ \A n \in EventTypes :
          /\ GeneratePublishTopic(n) = "events." \o n
          /\ GenerateSubscribeTopic(n) = GeneratePublishTopic(n)
          /\ \A n2 \in EventTypes \ {n} :
                GenerateSubscribeTopic(n2) # GeneratePublishTopic(n)
    /\ \A d \in {cur, last} :
          /\ (d.stage # "none" /\ WellFormed(d.msg)) => d.h = d.msg.type
          /\ (loop = "EventProcessor" /\ d.calls > 0) => d.h = d.msg.type

C8_Witness ==
    /\ loop = "EventProcessor"
    /\ Finished /\ last.msg.type = "UserUpdatedEvent" /\ last.h = "UserUpdatedEvent"
    /\ AckedAfterNil(last)
    /\ Len(queue) = 1 /\ WellFormed(queue[1]) /\ queue[1].type = "UserCreatedEvent"
    /\ cur.stage = "handle" /\ cur.msg = queue[1] /\ cur.h = "UserCreatedEvent"

ConfiguredMaxRetries ==
    IF loop = "EventRouter" THEN EventRouterMaxRetries ELSE GetRetry(cfg.retry).MaxRetries

\* C9 as stated: under the Retry middleware a message is negatively
\* acknowledged only after all MaxRetries re-invocations failed.
C9_NackOnlyAfterAllRetries ==
    (loop \in RetryLoops /\ Finished /\ last.settled = <<"Nack">>)
        => last.tries = 1 + ConfiguredMaxRetries

\* C9: under the Retry middleware the handler is re-invoked at most
\* MaxRetries times within one delivery (3 when no retry configuration is
\* supplied, never less than 1); the message is acknowledged exactly when
\* an attempt returned nil, and negatively acknowledged only after all
\* retries failed or the retry's context was done (MaxElapsedTime passed).
C9_RetryBounded ==
    loop \in RetryLoops =>
        /\ (loop = "EventProcessor" /\ cfg.retry.isNil) => ConfiguredMaxRetries = 3
        /\ ConfiguredMaxRetries >= 1
        /\ cur.tries <= 1 + ConfiguredMaxRetries
        /\ cur.stage = "backoff" => cur.tries <= ConfiguredMaxRetries
        /\ Finished =>
              /\ last.tries <= 1 + ConfiguredMaxRetries
              /\ last.err = "nil" <=> last.settled = <<"Ack">>
              /\ last.err # "nil" =>
                    /\ last.settled = <<"Nack">>
                    /\ last.tries = 1 + ConfiguredMaxRetries \/ last.expired

C9_Witness ==
    /\ loop = "EventProcessor" /\ cfg.retry.isNil
    /\ Finished /\ last.tries = 4 /\ last.calls = 4 /\ ~last.expired
    /\ last.err = "error" /\ last.settled = <<"Nack">>
    /\ cur.stage = "settle" /\ cur.tries = 3 /\ cur.err = "nil"

\* C10: a RabbitMQ message whose handler keeps failing or whose payload
\* never unmarshals is eventually routed to a dead-letter queue.
C10_PoisonDeadLettered ==
    \A i \in 1..MaxMsgs :
        (/\ loop \in RabbitLoops /\ ~AutoAck
         /\ \E k \in 1..Len(queue) : queue[k].id = i /\ ~queue[k].valid)
            ~> InStore(dlq, i)

(***************************************************************************)
(* The event handlers of the consumer (HandlerSpec): each prints one line  *)
(* built from the event and returns nil.  world holds the event as handed  *)
(* to the handler and the lines printed; result the values returned.       *)
(***************************************************************************)
HandledTypes == {"UserCreatedEvent", "UserUpdatedEvent", "UserDeletedEvent",
                 "ProductCreatedEvent", "ProductUpdatedEvent",
                 "ProductDeletedEvent", "ProductPriceChangedEvent"}
HandledEvents == [type : HandledTypes, entity : {"id-1", "id-2"},
                  eventId : {"ev-1", "ev-2", "ev-3", "ev-4"}]

\* A handler that marks the event it was given.
HandleEventMarking(w) ==
    [w EXCEPT !.event.eventId = "seen", !.log = Append(@, w.event)]

\* HandleUserCreated .. handleProductPriceChanged: log.Printf of the event's
\* fields; nothing is assigned.
HandleEvent(w) == [w EXCEPT !.log = Append(@, w.event)]

HandlerInit ==
    /\ CrudIdle /\ ConsIdle
    /\ \E e \in HandledEvents : world = [event |-> e, log |-> <<>>]
    /\ args = "" /\ result = <<>>

\* The event is delivered (again) and its handler runs to the end.
Handle ==
    /\ Len(result) < MaxHandlings
    /\ world' = HandleEvent(world)
    /\ result' = Append(result, "nil")
    /\ UNCHANGED args
    /\ UNCHANGED crudVars
    /\ UNCHANGED consVars

HandlerNext == Handle

HandlerSpec == HandlerInit /\ [][HandlerNext]_vars

UserCreatedEventMapping ==
    [EventTypeName |-> "UserCreatedEvent", Exchange |-> "user_events",
     Queue |-> "user_created_queue", RoutingKey |-> "user.created",
     ConsumerQueue |-> "user_created_queue", AutoAck |-> FALSE,
     PublishingKey |-> "user.created"]

UserUpdatedEventMapping ==
    [EventTypeName |-> "UserUpdatedEvent", Exchange |-> "user_events",
     Queue |-> "user_updated_queue", RoutingKey |-> "user.updated",
     ConsumerQueue |-> "user_updated_queue", AutoAck |-> FALSE,
     PublishingKey |-> "user.updated"]

\* Mappings a caller may build with the mapping builder.
CustomMappings ==
    {[EventTypeName |-> "UserCreatedEvent", Exchange |-> "audit_events",
      Queue |-> "audit_queue", RoutingKey |-> "audit.#",
      ConsumerQueue |-> "audit_queue", AutoAck |-> TRUE,
      PublishingKey |-> "audit.user.created"],
     [EventTypeName |-> "OrderCreatedEvent", Exchange |-> "order_events",
      Queue |-> "order_queue", RoutingKey |-> "order.created",
      ConsumerQueue |-> "order_queue", AutoAck |-> FALSE,
      PublishingKey |-> "order.created"]}

ClientEventTypes == {"UserCreatedEvent", "UserUpdatedEvent", "OrderCreatedEvent",
                     "ProductCreatedEvent"}

\* c.mappings[mapping.EventTypeName] = mapping
StoreMapping(ms, m) == (m.EventTypeName :> m) @@ ms

\* getEventTypeName: the name of the event's Go type.
getEventTypeName(t) == t

Outcome(c, t, err) == [call |-> c, type |-> t, err |-> err]

MappingInit ==
    /\ CrudIdle /\ ConsIdle
    /\ world = [mappings |-> <<>>, sent |-> <<>>, consumers |-> {}, calls |-> 0]
    /\ args = "" /\ result = Outcome("", "", "")

\* Client.RegisterEventMapping: declare exchange and queue, bind, then
\* store the mapping; an error of the broker returns before the store.
RegisterEventMapping ==
    /\ world.calls < MaxCalls
    /\ \E m \in CustomMappings \cup {UserCreatedEventMapping, UserUpdatedEventMapping},
          brokerErr \in BOOLEAN :
         IF brokerErr
         THEN /\ world' = [world EXCEPT !.calls = @ + 1]
              /\ result' = Outcome("Register", m.EventTypeName, "broker")
         ELSE /\ world' = [world EXCEPT !.calls = @ + 1,
                                        !.mappings = StoreMapping(@, m)]
              /\ result' = Outcome("Register", m.EventTypeName, "")
    /\ UNCHANGED args
    /\ UNCHANGED crudVars
    /\ UNCHANGED consVars

\* SetupDefaultMappings: register the UserCreated mapping, then the
\* UserUpdated mapping, returning at the first error.
SetupDefaultMappings ==
    /\ world.calls < MaxCalls
    /\ \E failAt \in 0..2 :
         /\ world' = [world EXCEPT !.calls = @ + 1,
                 !.mappings =
                     CASE failAt = 1 -> @
                       [] failAt = 2 -> StoreMapping(@, UserCreatedEventMapping)
                       [] OTHER -> StoreMapping(StoreMapping(@, UserCreatedEventMapping),
                                                UserUpdatedEventMapping)]
         /\ result' = Outcome("SetupDefault", "", IF failAt = 0 THEN "" ELSE "broker")
    /\ UNCHANGED args
    /\ UNCHANGED crudVars
    /\ UNCHANGED consVars

\* A client that publishes with the name of the mapping's queue as key.
PublishTargetQueue(m) == [exchange |-> m.Exchange, key |-> m.Queue]

\* Where Publish sends an event of a mapped type.
PublishTarget(m) == [exchange |-> m.Exchange, key |-> m.PublishingKey]

\* rabbitmq.Publish: look the mapping up by the event's type name, marshal,
\* publish to the mapping's exchange with its publishing key.
ClientPublish ==
    /\ world.calls < MaxCalls
    /\ \E t \in ClientEventTypes, chanErr \in BOOLEAN :
         LET name == getEventTypeName(t)
         IN IF name \notin DOMAIN world.mappings
            THEN /\ world' = [world EXCEPT !.calls = @ + 1]
                 /\ result' = Outcome("Publish", t, "no mapping")
            ELSE IF chanErr
            THEN /\ world' = [world EXCEPT !.calls = @ + 1]
                 /\ result' = Outcome("Publish", t, "channel")
            ELSE /\ world' = [world EXCEPT !.calls = @ + 1,
                        !.sent = Append(@, [type |-> t, via |-> world.mappings[name],
                                            to |-> PublishTarget(world.mappings[name])])]
                 /\ result' = Outcome("Publish", t, "")
    /\ UNCHANGED args
    /\ UNCHANGED crudVars
    /\ UNCHANGED consVars

\* rabbitmq.Subscribe: look the mapping up, start consuming its consumer
\* queue with its AutoAck setting.
ClientSubscribe ==
    /\ world.calls < MaxCalls
    /\ \E t \in ClientEventTypes, chanErr \in BOOLEAN :
         LET name == getEventTypeName(t)
         IN IF name \notin DOMAIN world.mappings
            THEN /\ world' = [world EXCEPT !.calls = @ + 1]
                 /\ result' = Outcome("Subscribe", t, "no mapping")
            ELSE IF chanErr
            THEN /\ world' = [world EXCEPT !.calls = @ + 1]
                 /\ result' = Outcome("Subscribe", t, "channel")
            ELSE /\ world' = [world EXCEPT !.calls = @ + 1,
                        !.consumers = @ \cup {[type |-> t, via |-> world.mappings[name],
                                               queue |-> world.mappings[name].ConsumerQueue,
                                               autoAck |-> world.mappings[name].AutoAck]}]
                 /\ result' = Outcome("Subscribe", t, "")
    /\ UNCHANGED args
    /\ UNCHANGED crudVars
    /\ UNCHANGED consVars

MappingNext ==
    \/ RegisterEventMapping
    \/ SetupDefaultMappings
    \/ ClientPublish
    \/ ClientSubscribe

MappingSpec == MappingInit /\ [][MappingNext]_vars

\* C12: Publish sends an event to the exchange and publishing key of the
\* mapping registered under its type name; once SetupDefaultMappings has
\* succeeded the client holds the UserCreated and UserUpdated mappings
\* (user_events / user.created / user.updated, manual acknowledgement); a
\* Publish or Subscribe for a type without a mapping returns an error and
\* publishes or consumes nothing.
C12_RoutedByMapping ==
    /\ [](/\ \A i \in 1..Len(world.sent) :
               LET s == world.sent[i]
               IN /\ s.via.EventTypeName = s.type
                  /\ s.to.exchange = s.via.Exchange
                  /\ s.to.key = s.via.PublishingKey
                  /\ (s.via = UserCreatedEventMapping) =>
                        (s.to = [exchange |-> "user_events", key |-> "user.created"])
                  /\ (s.via = UserUpdatedEventMapping) =>
                        (s.to = [exchange |-> "user_events", key |-> "user.updated"])
          /\ \A c \in world.consumers :
               /\ c.via.EventTypeName = c.type
               /\ c.queue = c.via.ConsumerQueue
               /\ c.autoAck = c.via.AutoAck
               /\ (c.via \in {UserCreatedEventMapping, UserUpdatedEventMapping}) =>
                        (c.autoAck = FALSE))
    /\ [][/\ (result'.call = "SetupDefault" /\ result'.err = "") =>
               (/\ "UserCreatedEvent" \in DOMAIN world'.mappings
                /\ "UserUpdatedEvent" \in DOMAIN world'.mappings
                /\ world'.mappings["UserCreatedEvent"] = UserCreatedEventMapping
                /\ world'.mappings["UserUpdatedEvent"] = UserUpdatedEventMapping)
          /\ (/\ result'.call \in {"Publish", "Subscribe"}
              /\ result'.type \notin DOMAIN world.mappings) =>
               (/\ result'.err = "no mapping"
                /\ world'.sent = world.sent
                /\ world'.consumers = world.consumers)
          /\ (result'.call = "Publish" /\ result'.err = "") =>
               (/\ result'.type \in DOMAIN world.mappings
                /\ world'.sent = Append(world.sent,
                       [type |-> result'.type,
                        via |-> world.mappings[result'.type],
                        to |-> [exchange |-> world.mappings[result'.type].Exchange,
                                key |-> world.mappings[result'.type].PublishingKey]]))
         ]_vars

C12_Witness ==
    /\ Len(world.sent) = 1
    /\ world.sent[1].via = UserCreatedEventMapping
    /\ result = Outcome("Publish", "ProductCreatedEvent", "no mapping")

(***************************************************************************)
(* Assembling and starting the gRPC server (ServerSpec).  world.assembly   *)
(* is the code that builds the server: "endpoint" is app.NewEndpoint with  *)
(* server.NewGRPCServer(GRPCServices), "main" is cmd/server/main.go with   *)
(* server.NewGRPCServer(application).                                      *)
(***************************************************************************)
Assemblies == {"endpoint", "main"}
GrpcServices == {"UserService", "ProductService"}
Rpcs == [service : GrpcServices, method : {"Create", "Get", "Update", "Delete", "List"}]

\* The services the constructor registers on the grpc.Server it creates.
RegisteredByNew(assembly) ==
    IF assembly = "main" THEN GrpcServices ELSE {}

ServerInit ==
    /\ CrudIdle /\ ConsIdle
    /\ \E a \in Assemblies :
         world = [assembly |-> a, phase |-> "new", registered |-> {}]
    /\ args = "" /\ result = <<>>

\* NewEndpoint -> initServers -> NewGRPCServer, or main -> NewGRPCServer:
\* protovalidate.New may fail, otherwise the grpc.Server is created.
Assemble ==
    /\ world.phase = "new"
    /\ \E validatorErr \in BOOLEAN :
         world' = IF validatorErr
                  THEN [world EXCEPT !.phase = "failed"]
                  ELSE [world EXCEPT !.phase = "assembled",
                                     !.registered = RegisteredByNew(world.assembly)]
    /\ UNCHANGED <<args, result>>
    /\ UNCHANGED crudVars
    /\ UNCHANGED consVars

\* App.Start / main: GRPCServer.Start listens and serves.
StartServer ==
    /\ world.phase = "assembled"
    /\ world' = [world EXCEPT !.phase = "serving"]
    /\ UNCHANGED <<args, result>>
    /\ UNCHANGED crudVars
    /\ UNCHANGED consVars

\* grpc.Server dispatch: a method of a service that was never registered
\* is answered with codes.Unimplemented, any other reaches its handler.
ServeRpc ==
    /\ world.phase = "serving"
    /\ Len(result) < MaxRpcs
    /\ \E r \in Rpcs :
         result' = Append(result,
                     [rpc |-> r,
                      outcome |-> IF r.service \in world.registered
                                  THEN "handler" ELSE "Unimplemented"])
    /\ UNCHANGED <<world, args>>
    /\ UNCHANGED crudVars
    /\ UNCHANGED consVars

ServerNext ==
    \/ Assemble
    \/ StartServer
    \/ ServeRpc

ServerSpec == ServerInit /\ [][ServerNext]_vars

\* C13: once the application is assembled and started, both UserService and
\* ProductService are registered on the gRPC server and every CRUD RPC of
\* either service reaches its handler.
C13_BothServicesServed ==
    world.phase = "serving" =>
        /\ world.registered = GrpcServices
        /\ \A i \in 1..Len(result) : result[i].outcome = "handler"

(***************************************************************************)
(* Listing with offset page tokens (ListSpec): UserService.ListUsers,      *)
(* ProductService.ListProducts and the usecases of the same name.  world   *)
(* is the unchanged table and the request's filter, args the page size     *)
(* and the first page token, result the responses of the traversal.        *)
(***************************************************************************)
DefaultPageSize == 10
MaxPageSize == 100

\* A service that does not cap the page size.
ClampNoMax(n) == IF n <= 0 THEN DefaultPageSize ELSE n

\* pageSize <= 0 -> 10, pageSize > 100 -> 100.
ClampPageSize(n) ==
    IF n <= 0 THEN DefaultPageSize
    ELSE IF n > MaxPageSize THEN MaxPageSize
    ELSE n

RECURSIVE DecimalDigits(_)
\* The ASCII bytes of the decimal digits of n >= 0.
DecimalDigits(n) ==
    IF n < 10 THEN <<48 + n>>
    ELSE Append(DecimalDigits(n \div 10), 48 + (n % 10))

\* fmt.Sprintf("%d", n) as bytes.
Sprintf(n) == IF n < 0 THEN <<45>> \o DecimalDigits(0 - n) ELSE DecimalDigits(n)

RECURSIVE ScanDigits(_, _, _)
ScanDigits(bytes, i, acc) ==
    IF i > Len(bytes) \/ bytes[i] < 48 \/ bytes[i] > 57 THEN acc
    ELSE ScanDigits(bytes, i + 1, acc * 10 + (bytes[i] - 48))

\* fmt.Sscanf(text, "%d", &offset): an optional sign and at least one
\* digit; what follows the digits is left unread.
Sscanf(bytes) ==
    LET signed == Len(bytes) > 0 /\ bytes[1] \in {43, 45}
        first == IF signed THEN 2 ELSE 1
        ok == Len(bytes) >= first /\ bytes[first] >= 48 /\ bytes[first] <= 57
        n == ScanDigits(bytes, first, 0)
    IN [ok |-> ok, n |-> IF ~ok THEN 0 ELSE IF signed /\ bytes[1] = 45 THEN 0 - n ELSE n]

Pad == 64   \* stands for the padding character '=' among the sextets 0..63

RECURSIVE Base64Encode(_)
\* base64.StdEncoding.EncodeToString: three bytes become four sextets, a
\* shorter last group is padded.
Base64Encode(bytes) ==
    IF Len(bytes) = 0 THEN <<>>
    ELSE IF Len(bytes) = 1
    THEN <<bytes[1] \div 4, (bytes[1] % 4) * 16, Pad, Pad>>
    ELSE IF Len(bytes) = 2
    THEN <<bytes[1] \div 4, (bytes[1] % 4) * 16 + bytes[2] \div 16,
           (bytes[2] % 16) * 4, Pad>>
    ELSE <<bytes[1] \div 4, (bytes[1] % 4) * 16 + bytes[2] \div 16,
           (bytes[2] % 16) * 4 + bytes[3] \div 64, bytes[3] % 64>>
         \o Base64Encode(SubSeq(bytes, 4, Len(bytes)))

RECURSIVE Base64Decode(_)
\* base64.StdEncoding.DecodeString: ok is FALSE for text that is no
\* padded base64.
Base64Decode(t) ==
    IF Len(t) = 0 THEN [ok |-> TRUE, bytes |-> <<>>]
    ELSE IF Len(t) < 4 \/ t[1] = Pad \/ t[2] = Pad THEN [ok |-> FALSE, bytes |-> <<>>]
    ELSE IF t[3] = Pad
    THEN [ok |-> Len(t) = 4 /\ t[4] = Pad /\ t[2] % 16 = 0,
          bytes |-> <<t[1] * 4 + t[2] \div 16>>]
    ELSE IF t[4] = Pad
    THEN [ok |-> Len(t) = 4 /\ t[3] % 4 = 0,
          bytes |-> <<t[1] * 4 + t[2] \div 16, (t[2] % 16) * 16 + t[3] \div 4>>]
    ELSE LET rest == Base64Decode(SubSeq(t, 5, Len(t)))
         IN [ok |-> rest.ok,
             bytes |-> <<t[1] * 4 + t[2] \div 16, (t[2] % 16) * 16 + t[3] \div 4,
                         (t[3] % 4) * 64 + t[4]>> \o rest.bytes]

\* The next page token for an offset.
EncodePageToken(offset) == Base64Encode(Sprintf(offset))

\* The offset a request's page token stands for; the empty token is 0.
DecodePageToken(token) ==
    IF token = <<>> THEN [ok |-> TRUE, n |-> 0]
    ELSE LET d == Base64Decode(token)
         IN IF ~d.ok THEN [ok |-> FALSE, n |-> 0] ELSE Sscanf(d.bytes)

ListKinds == {"user", "product"}

\* Names, emails and prices of listed rows; text is a sequence of letters.
UserShapes ==
    {[name |-> <<"a", "n", "n">>, val |-> <<"a", "@", "x">>],
     [name |-> <<"B", "e", "n">>, val |-> <<"b", "@", "x">>],
     [name |-> <<"a", "n", "n">>, val |-> <<"e", "n", "@", "x">>]}

ProductShapes ==
    {[name |-> <<"p", "e", "n">>, val |-> "1.50"],
     [name |-> <<"P", "E", "N">>, val |-> "2.00"],
     [name |-> <<"i", "n", "k">>, val |-> "1.50"]}

Shapes(kind) == IF kind = "user" THEN UserShapes ELSE ProductShapes

\* created_at of the i-th inserted row: tie[i] says the row was inserted in
\* the same microsecond (or transaction) as the row before it.
CreatedAt(tie, i) == Cardinality({j \in 1..i : ~tie[j]})

\* users.email is UNIQUE.
EmailsDistinct(kind, f) ==
    kind = "user" => \A i, j \in DOMAIN f : f[i].val = f[j].val => i = j

SmallStores(kind) ==
    UNION {{[i \in 1..n |-> [id |-> i, name |-> f[i].name, val |-> f[i].val,
                             at |-> CreatedAt(tie, i)]] :
              f \in {g \in [1..n -> Shapes(kind)] : EmailsDistinct(kind, g)},
              tie \in {t \in [1..n -> BOOLEAN] : n > 0 => ~t[1]}} :
           n \in 0..MaxStore}

\* Tables with one row more than the default and than the largest page;
\* the i-th user has an email of i letters before the @.
FullStores(kind) ==
    {[i \in 1..n |->
        [id |-> i, name |-> (CHOOSE x \in Shapes(kind) : TRUE).name,
         val |-> IF kind = "user" THEN [j \in 1..i |-> "a"] \o <<"@", "x">>
                 ELSE (CHOOSE x \in Shapes(kind) : TRUE).val,
         at |-> i]] :
       n \in {DefaultPageSize + 1, MaxPageSize + 1}}

Stores(kind) == SmallStores(kind) \cup FullStores(kind)

NoRange == [nil |-> TRUE, min |-> "", max |-> ""]
PriceRanges == {NoRange, [nil |-> FALSE, min |-> "1.5", max |-> "1.50"],
                [nil |-> FALSE, min |-> "abc", max |-> "2"]}
SearchQueries == {<<>>, <<"E", "n">>}

Filters(kind) ==
    [q : SearchQueries, range : IF kind = "user" THEN {NoRange} ELSE PriceRanges]

PageSizes == {0 - 1, 0, 1, 2, MaxPageSize, MaxPageSize + 1}

StartTokens == {<<>>, EncodePageToken(1), EncodePageToken(0 - 1), <<12, 19>>}

\* ILIKE folds case.
Lower(c) == CASE c = "B" -> "b" [] c = "E" -> "e" [] c = "N" -> "n"
              [] c = "P" -> "p" [] OTHER -> c

\* text ILIKE '%' || q || '%'
ILike(text, q) ==
    \E i \in 0..(Len(text) - Len(q)) :
        \A j \in 1..Len(q) : Lower(text[i + j]) = Lower(q[j])

\* pgtype.Numeric.Scan of a price text, in hundredths; -1 when Scan fails.
ScanNumeric(t) ==
    CASE t \in {"1.5", "1.50"} -> 150
      [] t \in {"2", "2.00"}   -> 200
      [] OTHER                 -> 0 - 1

Between(r, range) ==
    /\ ScanNumeric(range.min) <= ScanNumeric(r.val)
    /\ ScanNumeric(r.val) <= ScanNumeric(range.max)

\* The WHERE clause of the query the request's parameters select: ListUsers
\* or SearchUsers; ListProducts, SearchProducts, ListProductsByPriceRange or
\* SearchProductsWithPriceRange.
QueryWhere(kind, f, r) ==
    IF kind = "user"
    THEN IF f.q # <<>> THEN ILike(r.name, f.q) \/ ILike(r.val, f.q) ELSE TRUE
    ELSE IF f.q # <<>> /\ ~f.range.nil THEN ILike(r.name, f.q) /\ Between(r, f.range)
    ELSE IF f.q # <<>> THEN ILike(r.name, f.q)
    ELSE IF ~f.range.nil THEN Between(r, f.range)
    ELSE TRUE

\* The WHERE clause of the count query: CountUsersBySearch or CountUsers
\* for users, CountProducts for products.
CountWhere(kind, f, r) ==
    IF kind = "user" /\ f.q # <<>>
    THEN ILike(r.name, f.q) \/ ILike(r.val, f.q)
    ELSE TRUE

NonDecreasing(rs) == \A i \in 1..(Len(rs) - 1) : rs[i].at <= rs[i + 1].at
DistinctAt(rs) == \A i \in 1..(Len(rs) - 1) : rs[i].at < rs[i + 1].at

\* ORDER BY created_at: every order of the selected rows in which created_at
\* does not decrease; rows with equal created_at come in any order.
OrderBys(rs) ==
    IF DistinctAt(rs) THEN {rs}
    ELSE {o \in {[i \in 1..Len(rs) |-> rs[p[i]]] : p \in Permutations(1..Len(rs))} :
            NonDecreasing(o)}

Min(a, b) == IF a < b THEN a ELSE b

\* A query that fetches one row less than it is asked for.
LimitOffsetShort(rs, limit, offset) ==
    SubSeq(rs, offset + 1, Min(Len(rs), offset + limit - 1))

\* LIMIT limit OFFSET offset
LimitOffset(rs, limit, offset) == SubSeq(rs, offset + 1, Min(Len(rs), offset + limit))

Ids(rs) == [i \in 1..Len(rs) |-> rs[i].id]

ListError(code) ==
    [err |-> code, offset |-> 0, eff |-> 0, items |-> <<>>, next |-> <<>>, total |-> 0]

\* One ListUsers / ListProducts call: ordered is the order the database
\* gives the selected rows for this query.
ListResponse(kind, store, f, pageSize, token, ordered, dbErr) ==
    LET eff == ClampPageSize(pageSize)
        dec == DecodePageToken(token)
        offset == dec.n
        fetched == LimitOffset(ordered, eff + 1, offset)
        hasNextPage == Len(fetched) > eff
        page == IF hasNextPage THEN SubSeq(fetched, 1, eff) ELSE fetched
    IN IF ~dec.ok THEN ListError("InvalidArgument")
       ELSE IF ~f.range.nil /\ (ScanNumeric(f.range.min) < 0 \/ ScanNumeric(f.range.max) < 0)
       THEN ListError("InvalidArgument")
       ELSE IF dbErr \/ offset < 0 THEN ListError("Internal")
       ELSE [err |-> "", offset |-> offset, eff |-> eff, items |-> Ids(page),
             next |-> IF hasNextPage THEN EncodePageToken(offset + eff) ELSE <<>>,
             total |-> Len(SelectSeq(store, LAMBDA r : CountWhere(kind, f, r)))]

ListInit ==
    /\ CrudIdle /\ ConsIdle
    /\ \E kind \in ListKinds :
         \E store \in Stores(kind), f \in Filters(kind) :
            world = [kind |-> kind, store |-> store, filter |-> f]
    /\ \E size \in PageSizes, token \in StartTokens :
         args = [pageSize |-> size, token |-> token]
    /\ result = <<>>

\* The client lists the first page with its start token, then follows the
\* NextPageToken of each response.
ListPage ==
    /\ \/ result = <<>>
       \/ /\ result # <<>>
          /\ result[Len(result)].err = "" /\ result[Len(result)].next # <<>>
    /\ LET token == IF result = <<>> THEN args.token ELSE result[Len(result)].next
           selected == SelectSeq(world.store,
                                 LAMBDA r : QueryWhere(world.kind, world.filter, r))
       IN \E ordered \in OrderBys(selected), dbErr \in BOOLEAN :
            result' = Append(result,
                        ListResponse(world.kind, world.store, world.filter,
                                     args.pageSize, token, ordered, dbErr))
    /\ UNCHANGED <<world, args>>
    /\ UNCHANGED crudVars
    /\ UNCHANGED consVars

ListNext == ListPage

ListSpec == ListInit /\ [][ListNext]_vars

(***************************************************************************)
(* Properties of listing (ListSpec).                                       *)
(***************************************************************************)
\* The rows of the table that match the request's filter: the search query
\* against name (and email for users), and for products the price range.
MatchesFilter(r) ==
    LET f == world.filter
    IN /\ f.q # <<>> =>
            \/ ILike(r.name, f.q)
            \/ world.kind = "user" /\ ILike(r.val, f.q)
       /\ (world.kind = "product" /\ ~f.range.nil) => Between(r, f.range)

Matching == SelectSeq(world.store, MatchesFilter)

RECURSIVE Concat(_)
Concat(pages) == IF pages = <<>> THEN <<>> ELSE Head(pages).items \o Concat(Tail(pages))

Succeeded == \A i \in 1..Len(result) : result[i].err = ""

\* A traversal from the empty token that has reached an empty NextPageToken.
Traversed ==
    /\ args.token = <<>> /\ result # <<>> /\ Succeeded
    /\ result[Len(result)].next = <<>>

\* ids lists every matching row exactly once, in created_at order.
EachOnceInOrder(ids) ==
    /\ Len(ids) = Len(Matching)
    /\ {ids[i] : i \in 1..Len(ids)} = {Matching[i].id : i \in 1..Len(Matching)}
    /\ \A i \in 1..(Len(ids) - 1) : world.store[ids[i]].at <= world.store[ids[i + 1]].at

TokensRight ==
    \A i \in 1..Len(result) :
        result[i].err = "" =>
            /\ (result[i].next = <<>>) <=> (Len(Matching) <= result[i].offset + result[i].eff)
            /\ result[i].next # <<>> =>
                   DecodePageToken(result[i].next)
                       = [ok |-> TRUE, n |-> result[i].offset + result[i].eff]

\* C15 as stated: with an unchanged store, following NextPageToken from the
\* empty token until it is empty returns every matching entity exactly once
\* in created_at order; NextPageToken is empty iff nothing matching lies
\* beyond offset + pageSize, and a token decodes to offset + pageSize.
C15_TraversalComplete ==
    /\ TokensRight
    /\ Traversed => EachOnceInOrder(Concat(result))

\* C15, amended: the same, for tables whose matching rows have pairwise
\* distinct created_at values (ORDER BY created_at fixes no order among
\* rows created at the same time, and each page is its own query).
C15_TraversalCompleteDistinct ==
    /\ TokensRight
    /\ (Traversed /\ DistinctAt(Matching)) => EachOnceInOrder(Concat(result))

C15_Witness ==
    /\ Traversed /\ DistinctAt(Matching)
    /\ args.pageSize = 1 /\ Len(result) = 2
    /\ world.filter.q # <<>> /\ Len(Matching) = 2
    /\ Concat(result) = <<result[1].items[1], result[2].items[1]>>

\* C16: TotalCount of a list response is the number of entities in the
\* store that match the request's filter, whatever the page size and token.
C16_TotalCountMatchesFilter ==
    \A i \in 1..Len(result) :
        result[i].err = "" => result[i].total = Len(Matching)

\* C17: the effective page size is 10 for a requested size <= 0, 100 for a
\* requested size > 100 and the requested size otherwise, and no response
\* holds more items than the effective page size.
C17_PageSizeClamped ==
    \A i \in 1..Len(result) :
        result[i].err = "" =>
            /\ result[i].eff = IF args.pageSize <= 0 THEN 10
                               ELSE IF args.pageSize > 100 THEN 100
                               ELSE args.pageSize
            /\ Len(result[i].items) <= result[i].eff

C17_Witness ==
    /\ Len(result) = 1 /\ result[1].err = ""
    /\ args.pageSize > 100 /\ Len(world.store) > 100
    /\ Len(result[1].items) = 100 /\ result[1].next # <<>>

(***************************************************************************)
(* Domain errors converted to gRPC status errors (ErrorSpec).  world is a  *)
(* DomainError, result the status ToGRPCError returns for it.              *)
(***************************************************************************)
\* The ErrorType constants in iota order; any other int has no name.
ErrorTypeName(n) ==
    CASE n = 0 -> "Validation"
      [] n = 1 -> "NotFound"
      [] n = 2 -> "Conflict"
      [] n = 3 -> "Internal"
      [] n = 4 -> "Unauthorized"
      [] n = 5 -> "Forbidden"
      [] OTHER -> "ErrorType(?)"

ErrorMessages == {"", "invalid page token", "user not found", "failed to list products: EOF"}
ErrorCauses == {"", "unexpected EOF"}

DomainErrors == [Type : (0 - 1)..MaxErrorType, Message : ErrorMessages, Cause : ErrorCauses]

\* DomainError.Error(): the message, followed by the cause when there is one.
ErrorText(e) == IF e.Cause # "" THEN e.Message \o ": " \o e.Cause ELSE e.Message

\* status.Error(code, e.Message)
StatusOf(e) == [code |-> ToGRPCError(ErrorTypeName(e.Type)), message |-> e.Message]

ErrorInit ==
    /\ CrudIdle /\ ConsIdle
    /\ world \in DomainErrors
    /\ args = "" /\ result = <<>>

\* A service method got the domain error from its usecase and returns
\* domainErr.ToGRPCError().
ConvertError ==
    /\ result = <<>>
    /\ result' = <<StatusOf(world)>>
    /\ UNCHANGED <<world, args>>
    /\ UNCHANGED crudVars
    /\ UNCHANGED consVars

ErrorNext == ConvertError

ErrorSpec == ErrorInit /\ [][ErrorNext]_vars

\* C18: ToGRPCError maps Validation to InvalidArgument, NotFound to NotFound,
\* Conflict to AlreadyExists, Unauthorized to Unauthenticated, Forbidden to
\* PermissionDenied, Internal and every other error type value to Internal,
\* and the status always carries the domain error's message.
C18_ErrorMappingTotal ==
    result # <<>> =>
        LET t == ErrorTypeName(world.Type)
            st == result[1]
        IN /\ st.message = world.Message
           /\ t = "Validation" => st.code = "InvalidArgument"
           /\ t = "NotFound" => st.code = "NotFound"
           /\ t = "Conflict" => st.code = "AlreadyExists"
           /\ t = "Unauthorized" => st.code = "Unauthenticated"
           /\ t = "Forbidden" => st.code = "PermissionDenied"
           /\ t = "Internal" => st.code = "Internal"
           /\ world.Type \notin 0..5 => st.code = "Internal"
           /\ st.code \in {"InvalidArgument", "NotFound", "AlreadyExists",
                           "Unauthenticated", "PermissionDenied", "Internal"}

C18_Witness ==
    /\ result # <<>>
    /\ world.Type = 6 /\ world.Cause # ""
    /\ result[1] = [code |-> "Internal", message |-> "user not found"]

(***************************************************************************)
(* Resolving a retry configuration (RetrySpec).  world is the configured   *)
(* RetryConsumerConfig, result what GetRetry returns for it.               *)
(***************************************************************************)
RetryTypes == {"", "default", "conservative", "aggressive", "exponential"}

RetryInputs ==
    {NilRetry} \cup
    [isNil : {FALSE}, Type : RetryTypes, MaxRetries : {0 - 1, 0, 1, 7},
     InitialInterval : {0, 250}, MaxInterval : {0 - 1000, 0, 1000}, Multiplier : {0, 125},
     MaxElapsedTime : {0, 1000}, RandomizationFactor : {0, 50}]

RetryInit ==
    /\ CrudIdle /\ ConsIdle
    /\ world \in RetryInputs
    /\ args = "" /\ result = <<>>

\* MiddlewareRetry calls c.GetRetry() when a consumer is built.
ResolveRetry ==
    /\ result = <<>>
    /\ result' = <<GetRetry(world)>>
    /\ UNCHANGED <<world, args>>
    /\ UNCHANGED crudVars
    /\ UNCHANGED consVars

RetryNext == ResolveRetry

RetrySpec == RetryInit /\ [][RetryNext]_vars

\* C19: GetRetry returns the default preset for a nil receiver or an empty
\* or unknown Type, the conservative or aggressive preset for the matching
\* Type, with exactly the fields replaced whose configured value is strictly
\* positive; the resulting MaxRetries is at least 1.
C19_RetryResolution ==
    result # <<>> =>
        LET c == world
            got == result[1]
            preset == IF ~c.isNil /\ c.Type = "conservative" THEN ConservativeRetryConsumerConfig
                      ELSE IF ~c.isNil /\ c.Type = "aggressive" THEN AggressiveRetryConsumerConfig
                      ELSE DefaultRetryConsumerConfig
            Want(configured, fromPreset) ==
                IF ~c.isNil /\ configured > 0 THEN configured ELSE fromPreset
        IN /\ got.MaxRetries = Want(c.MaxRetries, preset.MaxRetries)
           /\ got.InitialInterval = Want(c.InitialInterval, preset.InitialInterval)
           /\ got.MaxInterval = Want(c.MaxInterval, preset.MaxInterval)
           /\ got.Multiplier = Want(c.Multiplier, preset.Multiplier)
           /\ got.MaxElapsedTime = Want(c.MaxElapsedTime, preset.MaxElapsedTime)
           /\ got.RandomizationFactor
                 = Want(c.RandomizationFactor, preset.RandomizationFactor)
           /\ got.MaxRetries >= 1

C19_Witness ==
    /\ result # <<>>
    /\ ~world.isNil /\ world.Type = "exponential"
    /\ world.MaxRetries = 0 /\ world.MaxInterval = 1000 /\ world.InitialInterval = 0
    /\ result[1].MaxRetries = 3 /\ result[1].MaxInterval = 1000
    /\ result[1].InitialInterval = 100

(***************************************************************************)
(* BulkUpdatePrices next to one other request (BulkSpec).  world is the    *)
(* products table and the events published, args the bulk call's position  *)
(* and the other request, result the bulk response under construction.     *)
(***************************************************************************)
BulkTables ==
    {t \in SUBSET [id : 1..2, name : {"pen", "ink"}, val : {"1.50"}] :
        /\ \A r1, r2 \in t : r1.id = r2.id => r1 = r2
        /\ t # {}}

BulkUpdates == [id : 0..2, price : {"2", "abc"}]

UpdateLists == UNION {[1..n -> BulkUpdates] : n \in 1..MaxUpdates}

NoOther == [op |-> "none", id |-> 0, name |-> "", val |-> "", pc |-> "done"]
OtherRequests ==
    {NoOther}
    \cup [op : {"Update"}, id : {1}, name : {"ink", "cap"}, val : {"1.50"}, pc : {"get"}]
    \cup [op : {"Delete"}, id : {1}, name : {""}, val : {""}, pc : {"get"}]

InTable(t, id) == \E r \in t : r.id = id
RowIn(t, id) == IF InTable(t, id) THEN CHOOSE r \in t : r.id = id ELSE NoRow

BulkInit ==
    /\ CrudIdle /\ ConsIdle
    /\ \E t \in BulkTables : world = [table |-> t, events |-> <<>>]
    /\ \E us \in UpdateLists, o \in OtherRequests :
         args = [updates |-> us, i |-> 1, pc |-> "get", name |-> "", got |-> NoRow,
                 other |-> o]
    /\ result = [updated |-> <<>>, failed |-> <<>>]

\* failedIDs = append(failedIDs, update.ID); continue
BulkFailed ==
    /\ args' = [args EXCEPT !.i = @ + 1, !.pc = "get", !.name = "", !.got = NoRow]
    /\ result' = [result EXCEPT !.failed = Append(@, args.updates[args.i].id)]
    /\ UNCHANGED world

\* BulkUpdatePrices, in the loop: read the product to keep its name.
BulkGetProduct ==
    /\ args.pc = "get" /\ args.i <= Len(args.updates)
    /\ LET id == args.updates[args.i].id
       IN \E dbErr \in BOOLEAN :
            IF ParseUUIDFails(id) \/ dbErr \/ ~InTable(world.table, id)
            THEN BulkFailed
            ELSE /\ args' = [args EXCEPT !.pc = "existing",
                                         !.name = RowIn(world.table, id).name]
                 /\ UNCHANGED <<world, result>>
    /\ UNCHANGED crudVars
    /\ UNCHANGED consVars

\* UpdateProduct, called by the loop: read the existing product again, then
\* parse the new price.
BulkGetExisting ==
    /\ args.pc = "existing"
    /\ LET u == args.updates[args.i]
       IN \E dbErr \in BOOLEAN :
            IF dbErr \/ ~InTable(world.table, u.id) \/ InvalidInput("product", u.price)
            THEN BulkFailed
            ELSE /\ args' = [args EXCEPT !.pc = "write", !.got = RowIn(world.table, u.id)]
                 /\ UNCHANGED <<world, result>>
    /\ UNCHANGED crudVars
    /\ UNCHANGED consVars

\* UpdateProduct: UPDATE products SET name = @name, price = @price WHERE
\* id = @id RETURNING *, then the publish calls, whose errors are printed.
BulkWrite ==
    /\ args.pc = "write"
    /\ LET u == args.updates[args.i]
           row == [id |-> u.id, name |-> args.name, val |-> DecimalFromString(u.price)]
       IN \E dbErr, okUpdated, okChanged \in BOOLEAN :
            IF dbErr \/ ~InTable(world.table, u.id)
            THEN BulkFailed
            ELSE /\ world' = [table |-> {r \in world.table : r.id # u.id} \cup {row},
                              events |-> world.events
                                 \o (IF okUpdated THEN <<"ProductUpdatedEvent">> ELSE <<>>)
                                 \o (IF okChanged /\ UsecasePriceChanged(args.got, row)
                                     THEN <<"ProductPriceChangedEvent">> ELSE <<>>)]
                 /\ args' = [args EXCEPT !.i = @ + 1, !.pc = "get", !.name = "",
                                         !.got = NoRow]
                 /\ result' = [result EXCEPT !.updated = Append(@, row)]
    /\ UNCHANGED crudVars
    /\ UNCHANGED consVars

\* The loop is over: the response is returned.
BulkReturn ==
    /\ args.pc = "get" /\ args.i > Len(args.updates)
    /\ args' = [args EXCEPT !.pc = "done"]
    /\ UNCHANGED <<world, result>>
    /\ UNCHANGED crudVars
    /\ UNCHANGED consVars

\* The other request (UpdateProduct or DeleteProduct) reads its product.
OtherGet ==
    /\ args.other.pc = "get"
    /\ args' = [args EXCEPT !.other.pc =
                   IF InTable(world.table, args.other.id) THEN "write" ELSE "done"]
    /\ UNCHANGED <<world, result>>
    /\ UNCHANGED crudVars
    /\ UNCHANGED consVars

\* The other request writes: UPDATE ... SET name, price, or DELETE.
OtherWrite ==
    /\ args.other.pc = "write"
    /\ LET o == args.other
       IN world' = [world EXCEPT !.table =
               IF o.op = "Delete" THEN {r \in @ : r.id # o.id}
               ELSE IF InTable(@, o.id)
               THEN {r \in @ : r.id # o.id}
                    \cup {[id |-> o.id, name |-> o.name, val |-> DecimalFromString(o.val)]}
               ELSE @]
    /\ args' = [args EXCEPT !.other.pc = "done"]
    /\ UNCHANGED result
    /\ UNCHANGED crudVars
    /\ UNCHANGED consVars

BulkNext ==
    \/ BulkGetProduct
    \/ BulkGetExisting
    \/ BulkWrite
    \/ BulkReturn
    \/ OtherGet
    \/ OtherWrite

BulkSpec == BulkInit /\ [][BulkNext]_vars

\* C20: BulkUpdatePrices changes only prices: a product it reports in
\* UpdatedProducts has the requested price and the name the table held for
\* it, also when another request renames the product concurrently; a step
\* that reports an id in FailedIDs leaves the table unchanged.
C20_BulkChangesOnlyPrices ==
    /\ [](\A k \in 1..Len(result.updated) :
             \E j \in 1..Len(args.updates) :
                /\ args.updates[j].id = result.updated[k].id
                /\ DecimalFromString(args.updates[j].price) = result.updated[k].val)
    /\ [][/\ Len(result'.updated) = Len(result.updated) + 1 =>
                LET new == result'.updated[Len(result'.updated)]
                IN /\ new \in world'.table
                   /\ new.name = RowIn(world.table, new.id).name
                   /\ \A r \in world.table : r.id # new.id => r \in world'.table
          /\ Len(result'.failed) = Len(result.failed) + 1 => world'.table = world.table
         ]_vars

(***************************************************************************)
(* Starting and shutting down the application (ShutdownSpec).  world is    *)
(* the context, the pool, both servers and their running requests; args    *)
(* the position of the main goroutine and of the two Start goroutines;     *)
(* result the shutdown calls that have returned, in order.                 *)
(* world.assembly: "endpoint" is App.Start / waitForShutdown, "main" is    *)
(* cmd/server/main.go with its deferred dbPool.Close().                    *)
(***************************************************************************)
ShutdownInit ==
    /\ CrudIdle /\ ConsIdle
    /\ \E a \in Assemblies :
         world = [assembly |-> a, cancelled |-> FALSE, pool |-> "open",
                  grpc |-> "idle", http |-> "nil", rpcs |-> 0, https |-> 0]
    /\ args = [main |-> "wait", grpcStart |-> "serve", httpStart |-> "create"]
    /\ result = <<>>

\* <-sigCh returns: SIGINT or SIGTERM arrived.
Signal ==
    /\ args.main = "wait"
    /\ args' = [args EXCEPT !.main = "cancel"]
    /\ UNCHANGED <<world, result>>
    /\ UNCHANGED crudVars
    /\ UNCHANGED consVars

\* a.cancel() / cancel()
CancelContext ==
    /\ args.main = "cancel"
    /\ world' = [world EXCEPT !.cancelled = TRUE]
    /\ args' = [args EXCEPT !.main = "stopGrpc"]
    /\ result' = Append(result, "cancel")
    /\ UNCHANGED crudVars
    /\ UNCHANGED consVars

\* GRPCServer.Stop: GracefulStop closes the listeners and refuses new RPCs.
StopGrpcBegin ==
    /\ args.main = "stopGrpc"
    /\ world' = [world EXCEPT !.grpc = IF @ = "stopped" THEN @ ELSE "draining"]
    /\ args' = [args EXCEPT !.main = "drainGrpc"]
    /\ UNCHANGED result
    /\ UNCHANGED crudVars
    /\ UNCHANGED consVars

\* GracefulStop returns once no RPC is running.
StopGrpcEnd ==
    /\ args.main = "drainGrpc" /\ world.rpcs = 0
    /\ world' = [world EXCEPT !.grpc = "stopped"]
    /\ args' = [args EXCEPT !.main = "stopHttp"]
    /\ result' = Append(result, "grpc stopped")
    /\ UNCHANGED crudVars
    /\ UNCHANGED consVars

\* HTTPServer.Stop: if s.server != nil, Shutdown: close the listener and
\* wait for the running requests; with s.server still nil it returns nil.
StopHttpBegin ==
    /\ args.main = "stopHttp"
    /\ IF world.http = "nil"
       THEN /\ args' = [args EXCEPT !.main = "closePool"]
            /\ result' = Append(result, "http stop returned")
            /\ UNCHANGED world
       ELSE /\ world' = [world EXCEPT !.http = IF @ = "stopped" THEN @ ELSE "draining"]
            /\ args' = [args EXCEPT !.main = "drainHttp"]
            /\ UNCHANGED result
    /\ UNCHANGED crudVars
    /\ UNCHANGED consVars

StopHttpEnd ==
    /\ args.main = "drainHttp" /\ world.https = 0
    /\ world' = [world EXCEPT !.http = "stopped"]
    /\ args' = [args EXCEPT !.main = "closePool"]
    /\ result' = Append(result, "http stop returned")
    /\ UNCHANGED crudVars
    /\ UNCHANGED consVars

\* a.dbPool.Close() in waitForShutdown, the deferred dbPool.Close() of main;
\* then Start / main returns.
ClosePool ==
    /\ args.main = "closePool"
    /\ world' = [world EXCEPT !.pool = "closed"]
    /\ args' = [args EXCEPT !.main = "returned"]
    /\ result' = Append(result, "pool closed")
    /\ UNCHANGED crudVars
    /\ UNCHANGED consVars

\* The goroutine of GRPCServer.Start reaches Serve: a server that was
\* stopped before returns ErrServerStopped.
GrpcServe ==
    /\ args.grpcStart = "serve"
    /\ world' = [world EXCEPT !.grpc = IF @ = "idle" THEN "serving" ELSE @]
    /\ args' = [args EXCEPT !.grpcStart =
                   IF world.assembly = "main" THEN "waitCtx" ELSE "done"]
    /\ UNCHANGED result
    /\ UNCHANGED crudVars
    /\ UNCHANGED consVars

\* GRPCServer.Start of cmd/server: <-ctx.Done(), then GracefulStop.
GrpcStartStops ==
    /\ args.grpcStart = "waitCtx" /\ world.cancelled
    /\ world' = [world EXCEPT !.grpc = IF @ = "stopped" THEN @ ELSE "draining"]
    /\ args' = [args EXCEPT !.grpcStart = "done"]
    /\ UNCHANGED result
    /\ UNCHANGED crudVars
    /\ UNCHANGED consVars

\* The goroutine of HTTPServer.Start: s.server = &http.Server{...}
HttpCreate ==
    /\ args.httpStart = "create"
    /\ world' = [world EXCEPT !.http = "created"]
    /\ args' = [args EXCEPT !.httpStart = "listen"]
    /\ UNCHANGED result
    /\ UNCHANGED crudVars
    /\ UNCHANGED consVars

\* go s.server.ListenAndServe(): ErrServerClosed after a Shutdown.
HttpListen ==
    /\ args.httpStart = "listen"
    /\ world' = [world EXCEPT !.http = IF @ = "created" THEN "serving" ELSE @]
    /\ args' = [args EXCEPT !.httpStart = "waitCtx"]
    /\ UNCHANGED result
    /\ UNCHANGED crudVars
    /\ UNCHANGED consVars

\* HTTPServer.Start: <-ctx.Done(), then s.server.Shutdown.
HttpStartStops ==
    /\ args.httpStart = "waitCtx" /\ world.cancelled
    /\ world' = [world EXCEPT !.http = IF @ = "stopped" THEN @ ELSE "draining"]
    /\ args' = [args EXCEPT !.httpStart = "done"]
    /\ UNCHANGED result
    /\ UNCHANGED crudVars
    /\ UNCHANGED consVars

\* A serving gRPC server accepts an RPC; its handler works on the pool.
BeginRpc ==
    /\ world.grpc = "serving" /\ world.rpcs < MaxInflight
    /\ world' = [world EXCEPT !.rpcs = @ + 1]
    /\ UNCHANGED <<args, result>>
    /\ UNCHANGED crudVars
    /\ UNCHANGED consVars

EndRpc ==
    /\ world.rpcs > 0
    /\ world' = [world EXCEPT !.rpcs = @ - 1]
    /\ UNCHANGED <<args, result>>
    /\ UNCHANGED crudVars
    /\ UNCHANGED consVars

\* A serving HTTP server accepts a request for the gateway.
BeginHttp ==
    /\ world.http = "serving" /\ world.https < MaxInflight
    /\ world' = [world EXCEPT !.https = @ + 1]
    /\ UNCHANGED <<args, result>>
    /\ UNCHANGED crudVars
    /\ UNCHANGED consVars

EndHttp ==
    /\ world.https > 0
    /\ world' = [world EXCEPT !.https = @ - 1]
    /\ UNCHANGED <<args, result>>
    /\ UNCHANGED crudVars
    /\ UNCHANGED consVars

\* Shutdown of a server that has let its last request go.
HttpDrained ==
    /\ world.http = "draining" /\ world.https = 0 /\ args.main # "drainHttp"
    /\ world' = [world EXCEPT !.http = "stopped"]
    /\ UNCHANGED <<args, result>>
    /\ UNCHANGED crudVars
    /\ UNCHANGED consVars

ShutdownNext ==
    \/ Signal
    \/ CancelContext
    \/ StopGrpcBegin
    \/ StopGrpcEnd
    \/ StopHttpBegin
    \/ StopHttpEnd
    \/ ClosePool
    \/ GrpcServe
    \/ GrpcStartStops
    \/ HttpCreate
    \/ HttpListen
    \/ HttpStartStops
    \/ BeginRpc
    \/ EndRpc
    \/ BeginHttp
    \/ EndHttp
    \/ HttpDrained

ShutdownSpec == ShutdownInit /\ [][ShutdownNext]_vars

\* Goroutines keep running and requests end; the signal need not come.
FairShutdownSpec ==
    /\ ShutdownSpec
    /\ WF_vars(CancelContext) /\ WF_vars(StopGrpcBegin) /\ WF_vars(StopGrpcEnd)
    /\ WF_vars(StopHttpBegin) /\ WF_vars(StopHttpEnd) /\ WF_vars(ClosePool)
    /\ WF_vars(GrpcServe) /\ WF_vars(GrpcStartStops)
    /\ WF_vars(HttpCreate) /\ WF_vars(HttpListen) /\ WF_vars(HttpStartStops)
    /\ WF_vars(EndRpc) /\ WF_vars(EndHttp) /\ WF_vars(HttpDrained)

ShutdownOrder == <<"cancel", "grpc stopped", "http stop returned", "pool closed">>

\* C21: after the signal the application cancels its context, stops the
\* gRPC server, stops the HTTP server and only then closes the pool; the
\* pool is never closed while a server can still run a request; Start
\* eventually returns after the signal.
C21_GracefulShutdownOrder ==
    /\ [](/\ result = SubSeq(ShutdownOrder, 1, Len(result))
          /\ world.pool = "closed" =>
                /\ world.grpc \notin {"serving", "draining"} /\ world.rpcs = 0
                /\ world.http \notin {"serving", "draining"} /\ world.https = 0)
    /\ (args.main # "wait") ~> (args.main = "returned")

====
